---------------------------- MODULE Spec2Model ----------------------------
(***************************************************************************)
(* Evernote-Extractor: the resumable progress tracker (progress.py), the   *)
(* command-line import loop (cli.py import_notes) and the GUI import loop  *)
(* (app.py run_import / run_evernote_import) with the bookkeeping store    *)
(* (database.py) and the destination client (xwiki_client.py).             *)
(***************************************************************************)
EXTENDS Integers, Sequences, FiniteSets, TLC

(***************************************************************************)
(* Bounds of the model.                                                    *)
(***************************************************************************)
\* largest number of notes in one batch (count_notes_in_enex result)
MaxBatch == 3
\* number of program runs (process starts) in one behaviour
MaxRuns == 2
\* number of tracker API calls in one behaviour of the tracker client
MaxOps == 4
\* attachments bundled with a note
MaxAttachments == 2
\* img elements in a document
MaxImages == 2
\* lists nested in one another
MaxDepth == 3
\* cells in a table row, rows in a table
MaxCells == 2
MaxRows == 2
\* top-level elements in a document of text
MaxBlocks == 3
\* calls a client makes on one converter
MaxCalls == 2

(***************************************************************************)
(* Values.                                                                 *)
(***************************************************************************)
\* Python None
None == "None"

\* no note has been taken yet by the current run
NoLast == [id |-> None, outcome |-> "none"]

\* NoteStatus members (progress.py:12-18); status_value gives the .value
PENDING == "PENDING"
UPLOADED == "UPLOADED"
FAILED == "FAILED"
SKIPPED == "SKIPPED"
NoteStatus == {PENDING, UPLOADED, FAILED, SKIPPED}

status_value(s) ==
  CASE s = PENDING -> "pending"
    [] s = UPLOADED -> "uploaded"
    [] s = FAILED -> "failed"
    [] s = SKIPPED -> "skipped"

StatusValues == {status_value(s) : s \in NoteStatus}

\* NoteStatus(value): the member with that value (ValueError when there is none)
status_of_value(v) == CHOOSE s \in NoteStatus : status_value(s) = v

\* dict.get(key, default) on a mapping with string keys
get(d, k, default) == IF k \in DOMAIN d THEN d[k] ELSE default

\* the empty dict
EmptyDict == <<>>

\* d with d[k] = v added or replaced
put(d, k, v) == [x \in DOMAIN d \cup {k} |-> IF x = k THEN v ELSE d[x]]

(***************************************************************************)
(* Strings and digests.  A string is a sequence of characters.             *)
(***************************************************************************)
RECURSIVE Repeat(_, _)
\* s * n
Repeat(s, n) == IF n <= 0 THEN <<>> ELSE s \o Repeat(s, n - 1)

RECURSIVE str(_)
\* str(n) for a natural number
str(n) ==
  LET digit == <<"0", "1", "2", "3", "4", "5", "6", "7", "8", "9">>[(n % 10) + 1]
  IN IF n < 10 THEN <<digit>> ELSE str(n \div 10) \o <<digit>>

\* the hexadecimal digit that stands for a character of a digest's input
hex_of(c) ==
  CASE c = "a" -> "a" [] c = "b" -> "b" [] c = "c" -> "c" [] c = "d" -> "d"
    [] c = "0" -> "0" [] c = "1" -> "1" [] c = "2" -> "2" [] c = "_" -> "5"
    [] c = "T" -> "7" [] c = "x" -> "e"
    [] OTHER -> "f"

\* hexdigest()[:width] of a digest treated as injective on its input: the
\* digits of the input, padded with zeros on the left
hexdigest(key, width) ==
  LET digits == [k \in 1..Len(key) |-> hex_of(key[k])]
  IN IF Len(digits) >= width THEN SubSeq(digits, 1, width)
     ELSE Repeat(<<"0">>, width - Len(digits)) \o digits

(***************************************************************************)
(* Notes of the source export.  A title is a sequence of characters, a     *)
(* timestamp is a naive datetime <<day, hour>> or NoDatetime.  A batch may  *)
(* hold the same note more than once.                                      *)
(***************************************************************************)
\* created = None
NoDatetime == <<>>

NotePool ==
  { [title |-> <<"a">>, created |-> <<1, 0>>],
    [title |-> <<"b">>, created |-> NoDatetime] }

\* datetime.isoformat() of a naive datetime: the date, "T", the time
isoformat(created) == str(created[1]) \o <<"T">> \o str(created[2])

\* length of a note identifier
IdWidth == 16

\* an identifier computed from the title alone
generate_note_identifier_title_only(title, created) ==
  hexdigest(title, IdWidth)

\* generate_note_identifier
generate_note_identifier(title, created) ==
  LET key == IF created # NoDatetime THEN title \o <<"_">> \o isoformat(created) ELSE title
  IN hexdigest(key, IdWidth)

Ids == {generate_note_identifier(n.title, n.created) : n \in NotePool}
Titles == {n.title : n \in NotePool}

(***************************************************************************)
(* progress.py: NoteProgress, ImportProgress                               *)
(***************************************************************************)
NoteProgress(identifier, title, source_file) ==
  [identifier |-> identifier, title |-> title, status |-> PENDING,
   error |-> None, page_url |-> None, uploaded_at |-> None,
   source_file |-> source_file]

ImportProgress ==
  [wiki_url |-> "", space |-> "", total_notes |-> 0, notes |-> EmptyDict]

Count(p, s) == Cardinality({i \in DOMAIN p.notes : p.notes[i].status = s})

failed_count(p) == Count(p, FAILED)

(***************************************************************************)
(* The state file: absent, or a JSON text.  A JSON value is tagged with    *)
(* its shape: "obj" (with its members v), "arr", "str"; "text" is a file   *)
(* that is not JSON at all.                                                *)
(***************************************************************************)
Absent == [t |-> "absent"]
NotJson == [t |-> "text"]
JArr == [t |-> "arr"]
JStr == [t |-> "str"]
JObj(members) == [t |-> "obj", v |-> members]

\* ProgressTracker.save: the JSON document written for progress p
save(p) ==
  JObj([wiki_url |-> p.wiki_url, space |-> p.space,
        total_notes |-> p.total_notes,
        notes |-> JObj([i \in DOMAIN p.notes |->
                    JObj([identifier |-> p.notes[i].identifier,
                          title |-> p.notes[i].title,
                          status |-> status_value(p.notes[i].status),
                          error |-> p.notes[i].error,
                          page_url |-> p.notes[i].page_url,
                          uploaded_at |-> p.notes[i].uploaded_at,
                          source_file |-> p.notes[i].source_file])])])

\* the exception building NoteProgress from one "notes" member raises, if any
entry_error(e) ==
  IF e.t # "obj" THEN "TypeError"
  ELSE IF ~({"identifier", "title", "status"} \subseteq DOMAIN e.v) THEN "KeyError"
  ELSE IF e.v.status \notin StatusValues THEN "ValueError"
  ELSE "ok"

\* a NoteProgress built without the error of the member
entry_note_without_error(e) ==
  [identifier |-> e.v.identifier, title |-> e.v.title,
   status |-> status_of_value(e.v.status),
   error |-> None,
   page_url |-> get(e.v, "page_url", None),
   uploaded_at |-> get(e.v, "uploaded_at", None),
   source_file |-> get(e.v, "source_file", None)]

\* the NoteProgress built from a well-formed member
entry_note(e) ==
  [identifier |-> e.v.identifier, title |-> e.v.title,
   status |-> status_of_value(e.v.status),
   error |-> get(e.v, "error", None),
   page_url |-> get(e.v, "page_url", None),
   uploaded_at |-> get(e.v, "uploaded_at", None),
   source_file |-> get(e.v, "source_file", None)]

\* exceptions load() catches (progress.py:131)
Caught == {"JSONDecodeError", "KeyError", "ValueError"}

load_header(data) ==
  [wiki_url |-> get(data, "wiki_url", ""), space |-> get(data, "space", ""),
   total_notes |-> get(data, "total_notes", 0), notes |-> EmptyDict]

\* ProgressTracker.load on in-memory progress p and file f: the possible
\* results [progress, ret, raised].  The members of "notes" are visited in
\* file order, which the mapping does not record: any bad member may be the
\* first one met, after any of the good ones.
load(p, f) ==
  IF f.t = "absent" THEN {[progress |-> p, ret |-> FALSE, raised |-> FALSE]}
  ELSE IF f.t = "text"
    THEN {[progress |-> ImportProgress, ret |-> FALSE, raised |-> FALSE]}
  ELSE IF f.t # "obj" THEN {[progress |-> p, ret |-> FALSE, raised |-> TRUE]}
  ELSE
    LET hp == load_header(f.v)
        nv == get(f.v, "notes", JObj(EmptyDict))
    IN IF nv.t # "obj" THEN {[progress |-> hp, ret |-> FALSE, raised |-> TRUE]}
       ELSE
         LET good == {i \in DOMAIN nv.v : entry_error(nv.v[i]) = "ok"}
             bad == DOMAIN nv.v \ good
             loaded(G) == [hp EXCEPT !.notes = [i \in G |-> entry_note(nv.v[i])]]
         IN IF bad = {}
              THEN {[progress |-> loaded(good), ret |-> TRUE, raised |-> FALSE]}
              ELSE {IF entry_error(nv.v[b]) \in Caught
                      THEN [progress |-> ImportProgress, ret |-> FALSE, raised |-> FALSE]
                      ELSE [progress |-> loaded(G), ret |-> FALSE, raised |-> TRUE]
                    : b \in bad, G \in SUBSET good}

\* reset that forgets to unlink the state file
reset_keeps_file(p, f) == [progress |-> ImportProgress, state_file |-> f]

\* ProgressTracker.reset: [progress, state_file] afterwards
reset(p, f) == [progress |-> ImportProgress, state_file |-> Absent]

\* ProgressTracker.start_session
start_session(p, f, wiki_url, space, total_notes) ==
  LET q == [p EXCEPT !.wiki_url = wiki_url, !.space = space,
                     !.total_notes = total_notes]
  IN [progress |-> q, state_file |-> save(q)]

\* register_note without the "not in" test: a tracked record is replaced
register_note_overwrites(p, f, identifier, title, source_file) ==
  [progress |-> [p EXCEPT !.notes =
                   put(p.notes, identifier,
                       NoteProgress(identifier, title, source_file))],
   state_file |-> f]

\* ProgressTracker.register_note
register_note(p, f, identifier, title, source_file) ==
  IF identifier \notin DOMAIN p.notes
    THEN [progress |-> [p EXCEPT !.notes =
                          put(p.notes, identifier,
                              NoteProgress(identifier, title, source_file))],
          state_file |-> f]
    ELSE [progress |-> p, state_file |-> f]

\* ProgressTracker.mark_uploaded
mark_uploaded(p, f, identifier, page_url) ==
  IF identifier \in DOMAIN p.notes
    THEN LET q == [p EXCEPT !.notes[identifier].status = UPLOADED,
                            !.notes[identifier].page_url = page_url,
                            !.notes[identifier].uploaded_at = "now"]
         IN [progress |-> q, state_file |-> save(q)]
    ELSE [progress |-> p, state_file |-> f]

\* mark_failed that records the error but leaves the status as it was
mark_failed_keeps_status(p, f, identifier, error) ==
  IF identifier \in DOMAIN p.notes
    THEN LET q == [p EXCEPT !.notes[identifier].error = error]
         IN [progress |-> q, state_file |-> save(q)]
    ELSE [progress |-> p, state_file |-> f]

\* ProgressTracker.mark_failed
mark_failed(p, f, identifier, error) ==
  IF identifier \in DOMAIN p.notes
    THEN LET q == [p EXCEPT !.notes[identifier].status = FAILED,
                            !.notes[identifier].error = error]
         IN [progress |-> q, state_file |-> save(q)]
    ELSE [progress |-> p, state_file |-> f]

\* ProgressTracker.mark_skipped
mark_skipped(p, f, identifier, reason) ==
  IF identifier \in DOMAIN p.notes
    THEN LET q == [p EXCEPT !.notes[identifier].status = SKIPPED,
                            !.notes[identifier].error = reason]
         IN [progress |-> q, state_file |-> save(q)]
    ELSE [progress |-> p, state_file |-> f]

\* is_processed that takes every tracked note as processed
is_processed_any_tracked(p, identifier) == identifier \in DOMAIN p.notes

\* is_processed that forgets the skipped notes
is_processed_uploaded_only(p, identifier) ==
  IF identifier \in DOMAIN p.notes
    THEN p.notes[identifier].status = UPLOADED
    ELSE FALSE

\* ProgressTracker.is_processed
is_processed(p, identifier) ==
  IF identifier \in DOMAIN p.notes
    THEN p.notes[identifier].status \in {UPLOADED, SKIPPED}
    ELSE FALSE

\* should_retry that also answers true for pending notes
should_retry_not_done(p, identifier) ==
  IF identifier \in DOMAIN p.notes
    THEN p.notes[identifier].status \in {FAILED, PENDING}
    ELSE TRUE

\* ProgressTracker.should_retry
should_retry(p, identifier) ==
  IF identifier \in DOMAIN p.notes
    THEN p.notes[identifier].status = FAILED
    ELSE TRUE


(***************************************************************************)
(* converter.py: text.  A Python str is a sequence of tokens; a token is   *)
(* one whitespace character (" " or "\n") or a chunk without whitespace    *)
(* (a character, an entity, a tag of the markup, a literal the converter   *)
(* writes).                                                                *)
(***************************************************************************)
Whitespace == {" ", "\n"}

RECURSIVE Concat(_)
\* "".join(parts)
Concat(parts) ==
  IF parts = <<>> THEN <<>> ELSE Head(parts) \o Concat(Tail(parts))

\* html.unescape on one token: entities are decoded
unescape_token(c) ==
  CASE c = "&amp;" -> "&"
    [] c = "&lt;" -> "<"
    [] c = "&#10;" -> "\n"
    [] OTHER -> c

\* html.unescape
unescape(s) == [k \in 1..Len(s) |-> unescape_token(s[k])]

RECURSIVE lstrip(_)
lstrip(s) ==
  IF s # <<>> /\ Head(s) \in Whitespace THEN lstrip(Tail(s)) ELSE s

RECURSIVE rstrip(_)
rstrip(s) ==
  IF s # <<>> /\ s[Len(s)] \in Whitespace
    THEN rstrip(SubSeq(s, 1, Len(s) - 1))
    ELSE s

\* str.strip()
strip(s) == rstrip(lstrip(s))

\* number of newlines at the start of s
RECURSIVE newline_run(_)
newline_run(s) ==
  IF s # <<>> /\ Head(s) = "\n" THEN 1 + newline_run(Tail(s)) ELSE 0

RECURSIVE collapse_newlines(_)
\* re.sub(r'\n{3,}', '\n\n', s)
collapse_newlines(s) ==
  IF s = <<>> THEN <<>>
  ELSE LET n == newline_run(s)
       IN IF n >= 3 THEN <<"\n", "\n">> \o collapse_newlines(SubSeq(s, n + 1, Len(s)))
          ELSE IF n >= 1 THEN SubSeq(s, 1, n) \o collapse_newlines(SubSeq(s, n + 1, Len(s)))
          ELSE <<Head(s)>> \o collapse_newlines(Tail(s))

\* the tags of the markup
Tags == {"en-note", "body", "html", "b", "strong", "i", "em", "u", "s", "strike", "del",
         "a", "en-media", "img", "br", "en-todo", "h1", "h2", "h3", "h4", "h5", "h6",
         "ul", "ol", "li", "hr", "p", "div", "table", "thead", "tbody", "tfoot", "tr",
         "td", "th", "blockquote", "code", "pre", "en-crypt", "span", "font"}

open_tag(tag) == "<" \o tag \o ">"
close_tag(tag) == "</" \o tag \o ">"

\* a token that is a whole tag of the markup, matched by <[^>]+>
is_tag_token(c) == c \in {open_tag(t) : t \in Tags} \cup {close_tag(t) : t \in Tags}

\* ENMLToXWikiConverter._strip_html
_strip_html(html) == unescape(SelectSeq(html, LAMBDA c : ~is_tag_token(c)))

\* str.lower() on one token
lower_token(c) ==
  CASE c = "A" -> "a" [] c = "B" -> "b" [] c = "C" -> "c" [] c = "D" -> "d"
    [] c = "E" -> "e" [] c = "F" -> "f" [] c = "PNG" -> "png"
    [] OTHER -> c

\* str.lower()
lower(s) == [k \in 1..Len(s) |-> lower_token(s[k])]

\* str.replace("-", "")
remove_hyphens(s) == SelectSeq(s, LAMBDA c : c # "-")

\* s.endswith(suffix)
endswith(s, suffix) ==
  Len(s) >= Len(suffix) /\ SubSeq(s, Len(s) - Len(suffix) + 1, Len(s)) = suffix

(***************************************************************************)
(* models.py Attachment, Note; the document tree lxml builds.              *)
(***************************************************************************)
ImageMimes == {"image/png", "image/jpeg"}

\* width of an MD5 hexdigest
Md5Width == 32

md5(data) == hexdigest(data, Md5Width)

Attachment(filename, mime_type, data, hash) ==
  [filename |-> filename, mime_type |-> mime_type, data |-> data, hash |-> hash]

\* Attachment.is_image
is_image(att) == att.mime_type \in ImageMimes

\* a URL as the walk reads it: its text, what it starts with ("http",
\* "https", "data", "other", "" for no URL), the last segment of its path
\* (<<>> when the path has no "/"), and for a data URI its media type and
\* payload (valid |-> FALSE when it cannot be decoded)
Url(text, scheme, name) ==
  [text |-> text, scheme |-> scheme, name |-> name, mime |-> None, data |-> <<>>,
   valid |-> FALSE]
DataUri(text, mime, data, valid) ==
  [text |-> text, scheme |-> "data", name |-> <<>>, mime |-> mime, data |-> data,
   valid |-> valid]
NoUrl == Url("", "", <<>>)

\* attributes of an element; "" (<<>>, NoUrl) for an attribute that is not
\* there
NoAttrs == [src |-> NoUrl, alt |-> <<>>, hash |-> <<>>, href |-> <<>>,
            style |-> {}, checked |-> <<>>]

\* an element: tag, attributes, text before the first child, children, text
\* after the closing tag
Elem(tag, attrs, text, children, tail) ==
  [tag |-> tag, attrs |-> attrs, text |-> text, children |-> children, tail |-> tail]

\* no element (None)
NoElement == Elem("", NoAttrs, <<>>, <<>>, <<>>)

\* a Note: its ENML content, its attachments, and what lxml makes of the
\* content: the outcome of the XML parser and of the HTML parser ("root",
\* "none", "XMLSyntaxError", "Exception") and the root each one builds
Note(content, xml, root, html, html_root, attachments) ==
  [content |-> content, xml |-> xml, root |-> root, html |-> html,
   html_root |-> html_root, attachments |-> attachments]

(***************************************************************************)
(* converter.py ENMLToXWikiConverter: construction, attachments, images.   *)
(***************************************************************************)
RECURSIVE hash_map_of(_)
\* the loop of __init__ over note.attachments: a later attachment replaces
\* an earlier one with the same normalized hash
hash_map_of(attachments) ==
  IF attachments = <<>> THEN EmptyDict
  ELSE LET n == Len(attachments)
           att == attachments[n]
           rest == hash_map_of(SubSeq(attachments, 1, n - 1))
       IN put(rest, remove_hyphens(lower(att.hash)), att)

\* ENMLToXWikiConverter.__init__
ENMLToXWikiConverter(note, download_external_images) ==
  [output |-> <<>>,
   list_stack |-> <<>>,
   in_table |-> FALSE,
   table_rows |-> <<>>,
   current_row |-> <<>>,
   download_external_images |-> download_external_images,
   downloaded_images |-> <<>>,
   used_filenames |-> {lower(note.attachments[k].filename) : k \in 1..Len(note.attachments)},
   attachment_hash_map |-> hash_map_of(note.attachments),
   items |-> <<>>]

\* not-found result of a lookup
NotFound == Attachment(<<>>, None, <<>>, <<>>)

\* a lookup that compares the reference as it is written
find_exact(c, hash_value) ==
  IF hash_value = <<>> THEN NotFound
  ELSE get(c.attachment_hash_map, hash_value, NotFound)

\* ENMLToXWikiConverter._find_attachment_by_hash
_find_attachment_by_hash(c, hash_value) ==
  IF hash_value = <<>> THEN NotFound
  ELSE get(c.attachment_hash_map, remove_hyphens(lower(hash_value)), NotFound)

\* filename.rsplit(".", 1): position of the last "." (0 when there is none)
last_dot(filename) ==
  IF \E k \in 1..Len(filename) : filename[k] = "."
    THEN CHOOSE k \in 1..Len(filename) :
           filename[k] = "." /\ \A j \in (k + 1)..Len(filename) : filename[j] # "."
    ELSE 0

\* f"{base}_{counter}.{ext}" if ext else f"{base}_{counter}"
suffixed(filename, counter) ==
  LET d == last_dot(filename)
      base == IF d = 0 THEN filename ELSE SubSeq(filename, 1, d - 1)
      ext == IF d = 0 THEN <<>> ELSE SubSeq(filename, d + 1, Len(filename))
  IN IF ext # <<>> THEN base \o <<"_">> \o str(counter) \o <<".">> \o ext
     ELSE base \o <<"_">> \o str(counter)

RECURSIVE unique_from(_, _, _)
\* the while loop of _get_unique_filename
unique_from(used, filename, counter) ==
  IF lower(suffixed(filename, counter)) \notin used
    THEN suffixed(filename, counter)
    ELSE unique_from(used, filename, counter + 1)

\* a unique-name search that gives up after the first suffix
first_suffix_only(c, filename) ==
  IF lower(filename) \notin c.used_filenames THEN filename ELSE suffixed(filename, 1)

\* ENMLToXWikiConverter._get_unique_filename
_get_unique_filename(c, filename) ==
  IF lower(filename) \notin c.used_filenames
    THEN filename
    ELSE unique_from(c.used_filenames, filename, 1)

\* extension for a content type (ext_map, ".png" when unknown)
expected_ext(content_type) ==
  IF content_type = "image/jpeg" THEN <<".", "jpg">> ELSE <<".", "png">>

ImageExts == {<<".", "png">>, <<".", "jpg">>}

\* re.sub(r'[^\w\-_.]', '_', filename)
clean_filename(filename) ==
  [k \in 1..Len(filename) |-> IF filename[k] \in {" ", "%"} THEN "_" ELSE filename[k]]

\* a response of requests.get: failed (exception or error status), or a
\* body with its Content-Type
NoResponse == [ok |-> FALSE, content_type |-> None, data |-> <<>>]
Response(content_type, data) == [ok |-> TRUE, content_type |-> content_type, data |-> data]

\* download_image; NotFound stands for the None it returns
download_image(url, response) ==
  IF ~response.ok \/ response.content_type \notin ImageMimes THEN NotFound
  ELSE LET hash_value == md5(response.data)
           filename == IF url.name # <<>> THEN clean_filename(url.name) ELSE hash_value
           ext == expected_ext(response.content_type)
           named == IF ~endswith(lower(filename), ext)
                       /\ ~\E e \in ImageExts : endswith(lower(filename), e)
                      THEN filename \o ext
                      ELSE filename
       IN Attachment(named, response.content_type, response.data, hash_value)

write(c, s) == [c EXCEPT !.output = @ \o s]

\* ENMLToXWikiConverter._decode_data_uri; NotFound stands for None
_decode_data_uri(data_uri) ==
  IF data_uri.scheme # "data" \/ ~data_uri.valid \/ data_uri.mime \notin ImageMimes
    THEN NotFound
    ELSE LET hash_value == md5(data_uri.data)
         IN Attachment(<<"embedded_">> \o SubSeq(hash_value, 1, 8)
                         \o expected_ext(data_uri.mime),
                       data_uri.mime, data_uri.data, hash_value)

\* an external image whose failed download is taken for a downloaded image
external_image_failure_kept(c, src, response) ==
  LET attachment == download_image(src, response)
      filename == _get_unique_filename(c, attachment.filename)
  IN write([c EXCEPT !.downloaded_images =
                       Append(@, [attachment EXCEPT !.filename = filename]),
                     !.used_filenames = @ \cup {lower(filename)}],
           <<"[[image:">> \o filename \o <<"]]">>)

\* ENMLToXWikiConverter._handle_image, the branch of an http(s) source
external_image(c, src, response) ==
  IF c.download_external_images
    THEN LET attachment == download_image(src, response)
         IN IF attachment # NotFound
              THEN LET filename == _get_unique_filename(c, attachment.filename)
                   IN write([c EXCEPT !.downloaded_images =
                                        Append(@, [attachment EXCEPT !.filename = filename]),
                                      !.used_filenames = @ \cup {lower(filename)}],
                            <<"[[image:">> \o filename \o <<"]]">>)
              ELSE write(c, <<"[[image:", src.text, "]]", " ", "//(external", " ",
                              "image)//">>)
    ELSE write(c, <<"[[image:", src.text, "]]">>)

\* ENMLToXWikiConverter._handle_image; net gives the response to each URL
_handle_image(c, element, net) ==
  LET src == element.attrs.src
      alt == element.attrs.alt
  IN IF src.scheme = "data"
       THEN LET attachment == _decode_data_uri(src)
            IN IF attachment # NotFound
                 THEN write([c EXCEPT !.downloaded_images = Append(@, attachment)],
                            <<"[[image:">> \o attachment.filename \o <<"]]">>)
                 ELSE write(c, <<"[Image:", " ">>
                                 \o (IF alt # <<>> THEN alt ELSE <<"embedded", " ", "data">>)
                                 \o <<"]">>)
     ELSE IF src.scheme \in {"http", "https"}
       THEN external_image(c, src, net[src.text])
     ELSE IF src.text # ""
       THEN write(c, <<"[[image:", src.text, "]]">>)
     ELSE c

\* ENMLToXWikiConverter._handle_media
_handle_media(c, element) ==
  LET media_hash == element.attrs.hash
  IN IF media_hash = <<>> THEN c
     ELSE LET attachment == _find_attachment_by_hash(c, media_hash)
          IN IF attachment # NotFound
               THEN IF is_image(attachment)
                      THEN write(c, <<"[[image:">> \o attachment.filename \o <<"]]">>)
                      ELSE write(c, <<"[[">> \o attachment.filename \o <<">>attach:">>
                                      \o attachment.filename \o <<"]]">>)
               ELSE write(c, <<"[Missing", " ", "attachment:", " ">>
                               \o (IF Len(media_hash) > 8 THEN SubSeq(media_hash, 1, 8)
                                   ELSE media_hash)
                               \o <<"...]">>)

(***************************************************************************)
(* converter.py ENMLToXWikiConverter: the walk of the document tree.       *)
(***************************************************************************)
\* ENMLToXWikiConverter._escape_xwiki
_escape_xwiki(text) == text

\* ENMLToXWikiConverter._write_text
_write_text(c, text) ==
  IF text # <<>> THEN write(c, _escape_xwiki(unescape(text))) ELSE c

RECURSIVE _get_element_text(_)
\* ENMLToXWikiConverter._get_element_text
_get_element_text(element) ==
  unescape(element.text)
    \o Concat([k \in 1..Len(element.children) |->
                 _get_element_text(element.children[k])
                   \o unescape(element.children[k].tail)])

RECURSIVE split_lines(_)
\* text.split("\n")
split_lines(text) ==
  IF \E k \in 1..Len(text) : text[k] = "\n"
    THEN LET k == CHOOSE i \in 1..Len(text) :
                    text[i] = "\n" /\ \A j \in 1..(i - 1) : text[j] # "\n"
         IN <<SubSeq(text, 1, k - 1)>> \o split_lines(SubSeq(text, k + 1, Len(text)))
    ELSE <<text>>

\* "|".join(row)
join_cells(row) ==
  Concat([k \in 1..Len(row) |-> IF k = 1 THEN row[k] ELSE <<"|">> \o row[k]])

\* the prefix and suffix _handle_span derives from the style attribute
span_marks(style) ==
  LET bold == "font-weight" \in style /\ "bold" \in style
      italic == "font-style" \in style /\ "italic" \in style
      under == "text-decoration" \in style /\ "underline" \in style
      strike == "text-decoration" \in style /\ "line-through" \in style
  IN [prefix |-> (IF bold THEN <<"**">> ELSE <<>>) \o (IF italic THEN <<"//">> ELSE <<>>)
                   \o (IF under THEN <<"__">> ELSE <<>>) \o (IF strike THEN <<"--">> ELSE <<>>),
      suffix |-> (IF strike THEN <<"--">> ELSE <<>>) \o (IF under THEN <<"__">> ELSE <<>>)
                   \o (IF italic THEN <<"//">> ELSE <<>>) \o (IF bold THEN <<"**">> ELSE <<>>)]

\* the marker _handle_list pushes
list_type(ordered) == IF ordered THEN "1." ELSE "*"

\* the characters _handle_list_item adds to the prefix for one stack level
marker(type) == IF type = "1." THEN <<"1", ".">> ELSE <<"*">>

\* the loop of _handle_list_item over self.list_stack
item_prefix(list_stack) ==
  Concat([k \in 1..Len(list_stack) |-> marker(list_stack[k])])

\* the end of _handle_table_row: the row is buffered when it has a cell
flush_row(c) ==
  [c EXCEPT !.table_rows = IF c.current_row # <<>> THEN Append(@, c.current_row) ELSE @,
            !.current_row = <<>>]

\* ENMLToXWikiConverter._handle_table_cell
_handle_table_cell(c, element, is_header) ==
  LET text == _get_element_text(element)
  IN [c EXCEPT !.current_row = Append(@, IF is_header THEN <<"=">> \o text ELSE text)]

\* the lines _handle_table writes for the buffered rows
table_lines(table_rows) ==
  Concat([k \in 1..Len(table_rows) |-> <<"|">> \o join_cells(table_rows[k]) \o <<"\n">>])

\* ENMLToXWikiConverter._handle_heading
_handle_heading(c, element, level) ==
  write(c, <<"\n">> \o Repeat(<<"=">>, level) \o <<" ">> \o _get_element_text(element)
             \o <<" ">> \o Repeat(<<"=">>, level) \o <<"\n">>)

\* ENMLToXWikiConverter._handle_link
_handle_link(c, element) ==
  LET href == element.attrs.href
      text == _get_element_text(element)
      linked == IF href # <<>>
                  THEN IF text # <<>> /\ text # href
                         THEN write(c, <<"[[">> \o text \o <<">>">> \o href \o <<"]]">>)
                         ELSE write(c, <<"[[">> \o href \o <<"]]">>)
                  ELSE _write_text(c, text)
  IN _write_text(linked, element.tail)

\* ENMLToXWikiConverter._handle_blockquote
_handle_blockquote(c, element) ==
  LET lines == split_lines(_get_element_text(element))
  IN write(c, <<"\n">>
                \o Concat([k \in 1..Len(lines) |-> <<">", " ">> \o lines[k] \o <<"\n">>])
                \o <<"\n">>)

\* ENMLToXWikiConverter._handle_code
_handle_code(c, element) ==
  IF element.tag = "pre" \/ \E k \in 1..Len(element.text) : element.text[k] = "\n"
    THEN write(c, <<"\n", "{{code}}", "\n">> \o element.text \o <<"\n", "{{/code}}", "\n">>)
    ELSE write(c, <<"###">> \o element.text \o <<"###">>)

\* ENMLToXWikiConverter._handle_todo
_handle_todo(c, element) ==
  IF element.attrs.checked = <<"true">> THEN write(c, <<"[x]", " ">>)
  ELSE write(c, <<"[", " ", "]", " ">>)

\* ENMLToXWikiConverter._handle_encrypted
_handle_encrypted(c, element) ==
  write(c, <<"\n", "{{warning}}", "\n", "This", " ", "content", " ", "was", " ",
             "encrypted", " ", "in", " ", "Evernote", " ", "and", " ", "cannot", " ",
             "be", " ", "converted.", "\n", "{{/warning}}", "\n">>)

InlineFormats ==
  [b |-> "**", strong |-> "**", i |-> "//", em |-> "//", u |-> "__", s |-> "--",
   strike |-> "--", del |-> "--"]

Headings == [h1 |-> 1, h2 |-> 2, h3 |-> 3, h4 |-> 4, h5 |-> 5, h6 |-> 6]

RECURSIVE _process_element(_, _, _)
RECURSIVE process_children(_, _, _)
RECURSIVE list_item_children(_, _, _)
RECURSIVE table_children(_, _, _)

\* for child in element: self._process_element(child)
process_children(c, children, net) ==
  IF children = <<>> THEN c
  ELSE process_children(_process_element(c, Head(children), net), Tail(children), net)

\* ENMLToXWikiConverter._handle_inline_format
_handle_inline_format(c, element, prefix, suffix, net) ==
  _write_text(
    write(process_children(_write_text(write(c, <<prefix>>), element.text),
                           element.children, net),
          <<suffix>>),
    element.tail)

\* ENMLToXWikiConverter._handle_span
_handle_span(c, element, net) ==
  LET m == span_marks(element.attrs.style)
  IN _write_text(
       write(process_children(_write_text(write(c, m.prefix), element.text),
                              element.children, net),
             m.suffix),
       element.tail)

\* ENMLToXWikiConverter._handle_list
_handle_list(c, element, ordered, net) ==
  LET pushed == write([c EXCEPT !.list_stack = Append(@, list_type(ordered))], <<"\n">>)
      walked == process_children(pushed, element.children, net)
      popped == [walked EXCEPT !.list_stack = SubSeq(@, 1, Len(@) - 1)]
  IN IF popped.list_stack = <<>> THEN write(popped, <<"\n">>) ELSE popped

\* the loop of _handle_list_item over the children of the item
list_item_children(c, children, net) ==
  IF children = <<>> THEN c
  ELSE LET child == Head(children)
           before == IF child.tag \in {"ul", "ol"} THEN write(c, <<"\n">>) ELSE c
       IN list_item_children(_process_element(before, child, net), Tail(children), net)

\* ENMLToXWikiConverter._handle_list_item; items records the stack and the
\* prefix at the moment the item is emitted
_handle_list_item(c, element, net) ==
  LET prefix == item_prefix(c.list_stack)
      seen == [c EXCEPT !.items = Append(@, [stack |-> c.list_stack,
                                            prefix |-> IF c.list_stack # <<>>
                                                         THEN prefix ELSE <<>>])]
      started == IF c.list_stack # <<>> THEN write(seen, prefix \o <<" ">>) ELSE seen
  IN write(list_item_children(_write_text(started, element.text), element.children, net),
           <<"\n">>)

\* ENMLToXWikiConverter._handle_block
_handle_block(c, element, net) ==
  LET opened == IF c.output # <<>> /\ c.output[Len(c.output)] # "\n"
                  THEN write(c, <<"\n">>) ELSE c
  IN write(process_children(_write_text(opened, element.text), element.children, net),
           <<"\n">>)

\* ENMLToXWikiConverter._handle_table_row
_handle_table_row(c, element, net) ==
  flush_row(process_children([c EXCEPT !.current_row = <<>>], element.children, net))

\* the loop of _handle_table over the children of the table
table_children(c, children, net) ==
  IF children = <<>> THEN c
  ELSE LET child == Head(children)
           walked == IF child.tag \in {"thead", "tbody", "tfoot"}
                       THEN process_children(c, child.children, net)
                       ELSE _process_element(c, child, net)
       IN table_children(walked, Tail(children), net)

\* ENMLToXWikiConverter._handle_table
_handle_table(c, element, net) ==
  LET walked == table_children([c EXCEPT !.in_table = TRUE, !.table_rows = <<>>],
                               element.children, net)
      written == write(walked, <<"\n">> \o table_lines(walked.table_rows) \o <<"\n">>)
  IN [written EXCEPT !.in_table = FALSE, !.table_rows = <<>>]

\* ENMLToXWikiConverter._process_element
_process_element(c, element, net) ==
  LET tag == element.tag
  IN IF tag \in DOMAIN InlineFormats
       THEN _handle_inline_format(c, element, InlineFormats[tag], InlineFormats[tag], net)
     ELSE IF tag = "a" THEN _handle_link(c, element)
     ELSE IF tag = "en-media" THEN _write_text(_handle_media(c, element), element.tail)
     ELSE IF tag = "img" THEN _write_text(_handle_image(c, element, net), element.tail)
     ELSE IF tag = "br" THEN _write_text(write(c, <<"\n">>), element.tail)
     ELSE IF tag = "en-todo" THEN _write_text(_handle_todo(c, element), element.tail)
     ELSE _write_text(
            IF tag \in DOMAIN Headings THEN _handle_heading(c, element, Headings[tag])
            ELSE IF tag = "ul" THEN _handle_list(c, element, FALSE, net)
            ELSE IF tag = "ol" THEN _handle_list(c, element, TRUE, net)
            ELSE IF tag = "li" THEN _handle_list_item(c, element, net)
            ELSE IF tag = "hr" THEN write(c, <<"\n", "----", "\n">>)
            ELSE IF tag \in {"p", "div"} THEN _handle_block(c, element, net)
            ELSE IF tag = "table" THEN _handle_table(c, element, net)
            ELSE IF tag = "tr" THEN _handle_table_row(c, element, net)
            ELSE IF tag \in {"td", "th"} THEN _handle_table_cell(c, element, tag = "th")
            ELSE IF tag = "blockquote" THEN _handle_blockquote(c, element)
            ELSE IF tag \in {"code", "pre"} THEN _handle_code(c, element)
            ELSE IF tag = "en-crypt" THEN _handle_encrypted(c, element)
            ELSE IF tag = "span" THEN _handle_span(c, element, net)
            ELSE process_children(_write_text(c, element.text), element.children, net),
            element.tail)

RECURSIVE descendants(_)
\* the elements below element, in document order
descendants(element) ==
  Concat([k \in 1..Len(element.children) |->
            <<element.children[k]>> \o descendants(element.children[k])])

\* root.find(".//" + tag): the first descendant with the tag, or NoElement
find(root, tag) ==
  LET found == SelectSeq(descendants(root), LAMBDA e : e.tag = tag)
  IN IF found = <<>> THEN NoElement ELSE Head(found)

\* content with the XML declaration and the DOCTYPE removed, stripped
body_of(content) ==
  strip(SelectSeq(content, LAMBDA t : t \notin {"<?xml?>", "<!DOCTYPE>"}))

Returned(c, value) == [converter |-> c, raised |-> FALSE, exception |-> None, value |-> value]
Raised(c, exception) == [converter |-> c, raised |-> TRUE, exception |-> exception, value |-> <<>>]

\* what the two parsers do with a content: each returns a root element
\* ("root"), returns no root ("none"), raises etree.XMLSyntaxError or raises
\* another exception
ParserOutcomes == {"root", "none", "XMLSyntaxError", "Exception"}

\* ENMLToXWikiConverter.convert
convert(c, note, net) ==
  LET content == body_of(note.content)
      parsed == IF note.xml \in {"root", "none"}
                  THEN [outcome |-> note.xml, root |-> note.root]
                  ELSE [outcome |-> note.html, root |-> note.html_root]
  IN IF note.content = <<>> THEN Returned(c, <<>>)
     ELSE IF parsed.outcome = "XMLSyntaxError" THEN Returned(c, _strip_html(content))
     ELSE IF parsed.outcome = "Exception" THEN Raised(c, "Exception")
     ELSE IF parsed.outcome = "none" THEN Raised(c, "AttributeError")
     ELSE LET at_note == find(parsed.root, "en-note")
              at_body == find(parsed.root, "body")
              en_note == IF at_note # NoElement THEN at_note
                         ELSE IF at_body # NoElement THEN at_body
                         ELSE parsed.root
              walked == _process_element(c, en_note, net)
          IN Returned(walked, strip(collapse_newlines(walked.output)))

\* the note of a converter that was not asked for
NoNote == Note(<<>>, "none", NoElement, "none", NoElement, <<>>)

\* the latest call on the converter: none yet
NoCall == [op |-> "new", arg |-> None, raised |-> FALSE, exception |-> None,
           value |-> <<>>]


(***************************************************************************)
(* State.                                                                  *)
(***************************************************************************)
VARIABLES
  progress,     \* ProgressTracker.progress (in memory)
  state_file,   \* contents of ProgressTracker.state_file (on disk)
  lastOp,       \* tracker client: the last call made, [op, identifier]
  lastRet,      \* tracker client: how the last call ended, [ret, raised]
  nops,         \* tracker client: number of calls made
  frontend,     \* which program runs: "cli", "gui" ("api": the tracker client)
  pc,           \* where the running program is
  opts,         \* options of the current run
  runs,         \* number of runs started
  total_notes,  \* notes counted before the loop
  idx,          \* notes taken from notes_iter in this run
  cur,          \* cli: the note in flight, [id, title, created]: registered (created
                \* tells whether register_note made its record), not yet decided
  uploaded,     \* cli: uploaded counter
  completed,    \* gui: completed counter
  failed,       \* failed counter
  skipped,      \* skipped counter
  last,         \* what this run did with the latest note: [id, outcome], or NoLast
  fileAtStart,  \* the state file as the current run found it
  conn,         \* the connection test of the current run: "ok", "failed", "untested"
  wiki,         \* page names that exist at the destination
  sessions,     \* import_sessions table: the row of the current run's session
  records,      \* import_records table: the rows of the current run's session
  imported,     \* import_records table: (note_identifier, wiki_url) of the
                \* completed rows of earlier sessions
  session_id,   \* gui: id of the session of the current run
  conv_note,    \* converter client: the Note the converter was built for
  converter,    \* converter client: the fields of the ENMLToXWikiConverter
  conv_last,    \* converter client: the latest call, [op, arg, raised, exception, value]
  ncalls,       \* converter client: number of calls made
  id_calls      \* identifier client: the calls made, [title, created, value] each

trackerVars == <<progress, state_file>>
clientVars == <<lastOp, lastRet, nops>>
runVars == <<frontend, pc, opts, runs, total_notes, idx, cur, uploaded, completed,
             failed, skipped, last, fileAtStart, conn>>
storeVars == <<wiki, sessions, records, imported, session_id>>
importVars == <<runVars, storeVars>>

convVars == <<conv_note, converter, conv_last, ncalls, id_calls>>

vars == <<trackerVars, clientVars, importVars, convVars>>

\* no converter is in use
IdleConverter ==
  /\ conv_note = NoNote
  /\ converter = ENMLToXWikiConverter(NoNote, TRUE)
  /\ conv_last = NoCall
  /\ ncalls = 0
  /\ id_calls = <<>>

(***************************************************************************)
(* A client of the tracker API: calls the methods of one ProgressTracker  *)
(* in any order, while the state file may also be written from outside.    *)
(***************************************************************************)
SourceFile == "notes.enex"
PageUrls == {"url1", "url2"}
Errors == {"err1", "err2"}

NoRet == [ret |-> None, raised |-> FALSE]
Called(op, identifier) == [op |-> op, identifier |-> identifier]

\* "notes" members an outside writer may have put under identifier i
ForeignEntries(i) ==
  { JObj([identifier |-> i, title |-> <<"b">>, status |-> "uploaded",
          error |-> None, page_url |-> "url1", uploaded_at |-> "now",
          source_file |-> SourceFile]),
    JObj([identifier |-> i, title |-> <<"b">>, status |-> "failed"]),
    JObj([identifier |-> i, status |-> "uploaded"]),
    JObj([identifier |-> i, title |-> <<"b">>, status |-> "done"]),
    JStr }

\* state files an outside writer (or a torn write) may leave behind
ForeignFiles ==
  {NotJson, JArr, JObj([wiki_url |-> "W", notes |-> JArr])}
  \cup {JObj([notes |-> JObj(m)]) :
          m \in UNION {[S -> UNION {ForeignEntries(i) : i \in S}] : S \in SUBSET Ids}}

InitTracker ==
  /\ progress = ImportProgress
  /\ state_file = Absent
  /\ lastOp = Called("init", None)
  /\ lastRet = NoRet
  /\ nops = 0
  /\ IdleConverter
  /\ frontend = "api"
  /\ pc = "idle"
  /\ opts = None
  /\ runs = 0
  /\ total_notes = 0
  /\ idx = 0
  /\ cur = None
  /\ uploaded = 0
  /\ completed = 0
  /\ failed = 0
  /\ skipped = 0
  /\ last = NoLast
  /\ fileAtStart = Absent
  /\ conn = "untested"
  /\ wiki = {}
  /\ sessions = <<>>
  /\ records = <<>>
  /\ imported = {}
  /\ session_id = 0

Apply(r, op, identifier) ==
  /\ nops < MaxOps
  /\ progress' = r.progress
  /\ state_file' = r.state_file
  /\ lastOp' = Called(op, identifier)
  /\ lastRet' = NoRet
  /\ nops' = nops + 1
  /\ UNCHANGED <<importVars, convVars>>

CallRegister ==
  \E i \in Ids, t \in Titles :
    Apply(register_note(progress, state_file, i, t, SourceFile), "register_note", i)

CallMarkUploaded ==
  \E i \in Ids, u \in PageUrls :
    Apply(mark_uploaded(progress, state_file, i, u), "mark_uploaded", i)

CallMarkFailed ==
  \E i \in Ids, e \in Errors :
    Apply(mark_failed(progress, state_file, i, e), "mark_failed", i)

CallMarkSkipped ==
  \E i \in Ids :
    Apply(mark_skipped(progress, state_file, i, "Already exists"), "mark_skipped", i)

CallStartSession ==
  \E n \in 1..MaxBatch :
    Apply(start_session(progress, state_file, "W", "S", n), "start_session", None)

CallSave ==
  Apply([progress |-> progress, state_file |-> save(progress)], "save", None)

CallReset ==
  Apply(reset(progress, state_file), "reset", None)

CallLoad ==
  /\ nops < MaxOps
  /\ \E o \in load(progress, state_file) :
       /\ progress' = o.progress
       /\ lastRet' = [ret |-> o.ret, raised |-> o.raised]
  /\ lastOp' = Called("load", None)
  /\ nops' = nops + 1
  /\ UNCHANGED <<state_file, importVars, convVars>>

\* a query that changes nothing and returns ret
Query(ret, op, identifier) ==
  /\ nops < MaxOps
  /\ lastOp' = Called(op, identifier)
  /\ lastRet' = [ret |-> ret, raised |-> FALSE]
  /\ nops' = nops + 1
  /\ UNCHANGED <<progress, state_file, importVars, convVars>>

CallIsProcessed ==
  \E i \in Ids : Query(is_processed(progress, i), "is_processed", i)

CallShouldRetry ==
  \E i \in Ids : Query(should_retry(progress, i), "should_retry", i)

\* the state file is replaced from outside the program
ExternalWrite ==
  /\ nops < MaxOps
  /\ \E f \in ForeignFiles : state_file' = f
  /\ lastOp' = Called("external", None)
  /\ lastRet' = NoRet
  /\ nops' = nops + 1
  /\ UNCHANGED <<progress, importVars, convVars>>

NextTracker ==
  \/ CallRegister
  \/ CallMarkUploaded
  \/ CallMarkFailed
  \/ CallMarkSkipped
  \/ CallStartSession
  \/ CallSave
  \/ CallReset
  \/ CallLoad
  \/ CallIsProcessed
  \/ CallShouldRetry
  \/ ExternalWrite

SpecTracker == InitTracker /\ [][NextTracker]_vars


(***************************************************************************)
(* models.py ConvertedPage.page_name, xwiki_client.py XWikiClient          *)
(***************************************************************************)
\* longest page name kept (models.py:113)
PageNameLimit == 100

UntitledNote == <<"UntitledNote">>

\* what page_name's chain of str.replace calls turns one character into
safe_char(c) ==
  IF c \in {"/", "\\", ":", "|"} THEN <<"-">>
  ELSE IF c \in {"?", "*", "\"", "<", ">", " "} THEN <<>>
  ELSE <<c>>

RECURSIVE safe_name(_)
safe_name(title) ==
  IF title = <<>> THEN <<>>
  ELSE safe_char(Head(title)) \o safe_name(Tail(title))

\* a page name that is never cut
page_name_uncut(title) ==
  IF safe_name(title) = <<>> THEN UntitledNote ELSE safe_name(title)

\* ConvertedPage.page_name
page_name(title) ==
  LET name == safe_name(title)
      cut == IF Len(name) > PageNameLimit THEN SubSeq(name, 1, PageNameLimit) ELSE name
  IN IF cut = <<>> THEN UntitledNote ELSE cut

\* the page URL create_or_update_page reports for a page name
page_url_of(wiki_url, name) == <<wiki_url, name>>

\* the "[dry-run] space/page_name" text recorded by a dry run
dry_run_url(name) == <<"[dry-run]", name>>

\* XWikiClient.page_exists: answered is FALSE when the GET fails or is not 200
page_exists(w, name, answered) == answered /\ name \in w

\* XWikiClient.create_or_update_page: put_ok is the PUT returning 200/201/202,
\* answered the verification GET; gives the destination afterwards and the
\* UploadResult
create_or_update_page(w, wiki_url, name, put_ok, answered) ==
  IF put_ok
    THEN LET w2 == w \cup {name}
         IN IF page_exists(w2, name, answered)
              THEN [wiki |-> w2, success |-> TRUE,
                    page_url |-> page_url_of(wiki_url, name), error |-> None]
              ELSE [wiki |-> w2, success |-> FALSE, page_url |-> None,
                    error |-> "upload error"]
    ELSE [wiki |-> w, success |-> FALSE, page_url |-> None, error |-> "upload error"]

RECURSIVE upload_attachments(_, _)
\* the loop of create_or_update_page over page.attachments: ok[k] is
\* _upload_attachment returning True for the k-th attachment; attempts is
\* the filenames PUT, in order
upload_attachments(attachments, ok) ==
  IF attachments = <<>>
    THEN [attachments_uploaded |-> 0, attachments_failed |-> 0, attempts |-> <<>>]
    ELSE LET rest == upload_attachments(Tail(attachments), Tail(ok))
         IN [attachments_uploaded |-> rest.attachments_uploaded + (IF Head(ok) THEN 1 ELSE 0),
             attachments_failed |-> rest.attachments_failed + (IF Head(ok) THEN 0 ELSE 1),
             attempts |-> <<Head(attachments).filename>> \o rest.attempts]

\* UploadResult of a failure
UploadFailure(w, attempts) ==
  [wiki |-> w, success |-> FALSE, page_url |-> None, error |-> "upload error",
   attachments_uploaded |-> 0, attachments_failed |-> 0, attempts |-> attempts]

\* create_or_update_page that gives up when an attachment upload fails
create_or_update_page_all_or_nothing(w, wiki_url, name, attachments, put_ok, ok, answered) ==
  IF put_ok /\ (\A k \in 1..Len(ok) : ok[k]) /\ answered
    THEN [wiki |-> w \cup {name}, success |-> TRUE,
          page_url |-> page_url_of(wiki_url, name), error |-> None,
          attachments_uploaded |-> Len(attachments), attachments_failed |-> 0,
          attempts |-> [k \in 1..Len(attachments) |-> attachments[k].filename]]
    ELSE UploadFailure(w \cup (IF put_ok THEN {name} ELSE {}), <<>>)

\* XWikiClient.create_or_update_page for a page with attachments (the
\* operator create_or_update_page is this one for a page without): ok[k] is
\* the outcome of the upload of the k-th attachment
create_or_update_page_with(w, wiki_url, name, attachments, put_ok, ok, answered) ==
  IF put_ok
    THEN LET w2 == w \cup {name}
             up == upload_attachments(attachments, ok)
         IN IF page_exists(w2, name, answered)
              THEN [wiki |-> w2, success |-> TRUE,
                    page_url |-> page_url_of(wiki_url, name), error |-> None,
                    attachments_uploaded |-> up.attachments_uploaded,
                    attachments_failed |-> up.attachments_failed,
                    attempts |-> up.attempts]
              ELSE UploadFailure(w2, up.attempts)
    ELSE UploadFailure(w, <<>>)

(***************************************************************************)
(* cli.py import_notes                                                     *)
(***************************************************************************)
WikiUrl == "W"
Space == "S"

\* what the environment answers while one note is processed: convert_note
\* returns (or raises), the existence GET is answered, the PUT is accepted,
\* the verification GET is answered
\* (an answer that is never asked for, after an earlier failure, is left TRUE)
Envs ==
  {e \in [conv_ok : BOOLEAN, exists_answered : BOOLEAN, put_ok : BOOLEAN,
          verify_answered : BOOLEAN] :
     /\ (~e.conv_ok => e.exists_answered /\ e.put_ok /\ e.verify_answered)
     /\ (~e.put_ok => e.verify_answered)}

\* --retry-failed is read only under --resume (cli.py:189) and
\* --skip-existing only without --dry-run (cli.py:205-216): the command lines
\* that set them otherwise behave as the ones that do not
CliOptions ==
  {o \in [dry_run : BOOLEAN, resume : BOOLEAN, retry_failed : BOOLEAN,
          skip_existing : BOOLEAN] :
     /\ (o.retry_failed => o.resume)
     /\ (o.skip_existing => ~o.dry_run)}

\* outcomes of one loop iteration, by the counter they add to
UploadedOutcomes == {"dry_run", "uploaded"}
FailedOutcomes == {"conversion_failed", "upload_failed"}
SkippedOutcomes == {"already_processed", "previously_failed", "page_exists"}
\* outcomes of iterations that called convert_note
ConvertedOutcomes == {"conversion_failed", "dry_run", "page_exists", "uploaded",
                      "upload_failed"}
\* outcomes of iterations that called create_or_update_page
UploadCallOutcomes == {"uploaded", "upload_failed"}

Result(r, w, outcome) ==
  [progress |-> r.progress, state_file |-> r.state_file, wiki |-> w,
   outcome |-> outcome]

\* a connection test whose result is ignored
connection_never_fatal(dry_run, connected) == FALSE

\* the connection test that ends the run before the tracker is created
\* (cli.py:105-117)
cli_connection_fatal(dry_run, connected) == ~dry_run /\ ~connected

\* import_notes, one loop iteration after register_note (cli.py:181-240),
\* for a registered note with identifier id and title
import_note(p, f, w, o, id, title, env) ==
  IF o.resume /\ is_processed(p, id)
    THEN Result([progress |-> p, state_file |-> f], w, "already_processed")
  ELSE IF o.resume /\ ~o.retry_failed /\ ~should_retry(p, id)
    THEN Result([progress |-> p, state_file |-> f], w, "previously_failed")
  ELSE IF ~env.conv_ok
    THEN Result(mark_failed(p, f, id, "Conversion error"), w, "conversion_failed")
  ELSE IF o.dry_run
    THEN Result(mark_uploaded(p, f, id, dry_run_url(page_name(title))), w, "dry_run")
  ELSE IF o.skip_existing /\ page_exists(w, page_name(title), env.exists_answered)
    THEN Result(mark_skipped(p, f, id, "Page already exists"), w, "page_exists")
  ELSE
    LET res == create_or_update_page(w, WikiUrl, page_name(title), env.put_ok,
                                     env.verify_answered)
    IN IF res.success
         THEN Result(mark_uploaded(p, f, id, res.page_url), res.wiki, "uploaded")
         ELSE Result(mark_failed(p, f, id, res.error), res.wiki, "upload_failed")

\* a new process: nothing of the previous run is left in memory
NewRun(o) ==
  /\ runs < MaxRuns
  /\ pc \in {"idle", "done", "exit", "crashed"}
  /\ runs' = runs + 1
  /\ opts' = o
  /\ idx' = 0
  /\ cur' = None
  /\ uploaded' = 0
  /\ completed' = 0
  /\ failed' = 0
  /\ skipped' = 0
  /\ last' = NoLast
  /\ fileAtStart' = state_file

\* import_notes up to the loop (cli.py:91-162): credentials, connection test,
\* tracker construction and load, note count, start_session
CliStart ==
  /\ frontend = "cli"
  /\ \E o \in CliOptions, creds \in BOOLEAN, connected \in BOOLEAN, n \in 0..MaxBatch :
       /\ NewRun(o)
       /\ total_notes' = n
       /\ conn' = IF o.dry_run \/ ~creds THEN "untested"
                  ELSE IF connected THEN "ok" ELSE "failed"
       /\ IF (~creds /\ ~o.dry_run) \/ cli_connection_fatal(o.dry_run, connected)
            THEN /\ pc' = "exit"
                 /\ progress' = ImportProgress
                 /\ UNCHANGED state_file
            ELSE \E l \in (IF o.resume THEN load(ImportProgress, state_file)
                           ELSE {[progress |-> ImportProgress, ret |-> FALSE,
                                  raised |-> FALSE]}) :
                   IF l.raised
                     THEN /\ pc' = "crashed"
                          /\ progress' = l.progress
                          /\ UNCHANGED state_file
                   ELSE IF n = 0
                     THEN /\ pc' = "done"
                          /\ progress' = l.progress
                          /\ UNCHANGED state_file
                   ELSE LET r == start_session(l.progress, state_file, WikiUrl, Space, n)
                        IN /\ pc' = "loop"
                           /\ progress' = r.progress
                           /\ state_file' = r.state_file
  /\ UNCHANGED <<frontend, clientVars, convVars, storeVars>>

\* the loop takes the next note, computes its identifier and registers it
\* (cli.py:170-179)
CliNextNote ==
  /\ frontend = "cli"
  /\ pc = "loop"
  /\ idx < total_notes
  /\ \E note \in NotePool :
       \E r \in {register_note(progress, state_file,
                               generate_note_identifier(note.title, note.created),
                               note.title, SourceFile)} :
          /\ progress' = r.progress
          /\ state_file' = r.state_file
          /\ cur' = [id |-> generate_note_identifier(note.title, note.created),
                     title |-> note.title,
                     created |-> generate_note_identifier(note.title, note.created)
                                   \notin DOMAIN progress.notes]
  /\ pc' = "registered"
  /\ UNCHANGED <<frontend, opts, runs, total_notes, idx, uploaded, completed, failed,
                 skipped, last, fileAtStart, conn, clientVars, convVars, storeVars>>

\* the rest of the iteration for the registered note (cli.py:181-240)
CliProcessNote ==
  /\ frontend = "cli"
  /\ pc = "registered"
  /\ \E env \in Envs :
       \E r \in {import_note(progress, state_file, wiki, opts, cur.id, cur.title, env)} :
          /\ progress' = r.progress
          /\ state_file' = r.state_file
          /\ wiki' = r.wiki
          /\ last' = [id |-> cur.id, outcome |-> r.outcome]
          /\ uploaded' = uploaded + (IF r.outcome \in UploadedOutcomes THEN 1 ELSE 0)
          /\ failed' = failed + (IF r.outcome \in FailedOutcomes THEN 1 ELSE 0)
          /\ skipped' = skipped + (IF r.outcome \in SkippedOutcomes THEN 1 ELSE 0)
  /\ idx' = idx + 1
  /\ cur' = None
  /\ pc' = "loop"
  /\ UNCHANGED <<frontend, opts, runs, total_notes, completed, fileAtStart, conn, clientVars, convVars,
                 sessions, records, imported, session_id>>

\* notes_iter is exhausted: final summary (cli.py:242-254)
CliFinish ==
  /\ frontend = "cli"
  /\ pc = "loop"
  /\ idx = total_notes
  /\ pc' = "done"
  /\ UNCHANGED <<trackerVars, clientVars, convVars, storeVars, frontend, opts, runs, total_notes,
                 idx, cur, uploaded, completed, failed, skipped, last, fileAtStart, conn>>

\* the process is interrupted between two notes
Interrupt ==
  /\ pc = "loop"
  /\ pc' = "crashed"
  /\ UNCHANGED <<trackerVars, clientVars, convVars, storeVars, frontend, opts, runs, total_notes,
                 idx, cur, uploaded, completed, failed, skipped, last, fileAtStart, conn>>

(***************************************************************************)
(* database.py ImportDatabase, app.py run_import / run_evernote_import     *)
(***************************************************************************)
\* ImportStatus values (database.py:12-19)
ST_PENDING == "pending"
ST_IN_PROGRESS == "in_progress"
ST_COMPLETED == "completed"
ST_FAILED == "failed"
ST_SKIPPED == "skipped"

\* ImportDatabase.create_session: the table afterwards (the new id is its length)
create_session(ss, wiki_url, n) ==
  Append(ss, [wiki_url |-> wiki_url, total_notes |-> n, completed_notes |-> 0,
              failed_notes |-> 0, skipped_notes |-> 0, status |-> ST_IN_PROGRESS])

\* ImportDatabase.update_session_counts
update_session_counts(ss, sid, c, f, k) ==
  [ss EXCEPT ![sid].completed_notes = c, ![sid].failed_notes = f,
             ![sid].skipped_notes = k]

\* ImportDatabase.finish_session
finish_session(ss, sid, status) == [ss EXCEPT ![sid].status = status]

\* ImportDatabase.create_record: the table afterwards (the new id is its length)
create_record(rs, sid, note_identifier, wiki_url) ==
  Append(rs, [session_id |-> sid, note_identifier |-> note_identifier,
              wiki_url |-> wiki_url, status |-> ST_PENDING, page_url |-> None,
              error_message |-> None])

\* ImportDatabase.update_record_status
update_record_status(rs, rid, status, page_url, error_message) ==
  [rs EXCEPT ![rid].status = status, ![rid].page_url = page_url,
             ![rid].error_message = error_message]

\* the (note_identifier, wiki_url) pairs of the completed rows of rs
completed_rows(rs) ==
  {[note_identifier |-> rs[k].note_identifier, wiki_url |-> rs[k].wiki_url] :
     k \in {j \in 1..Len(rs) : rs[j].status = ST_COMPLETED}}

\* ImportDatabase.is_note_imported: rs are the rows of the current session,
\* old the completed rows of the earlier ones
is_note_imported(rs, old, note_identifier, wiki_url) ==
  [note_identifier |-> note_identifier, wiki_url |-> wiki_url]
    \in completed_rows(rs) \cup old

\* options of a GUI run: the form asks for a URL unless it is a dry run.
\* run_evernote_import is run_import without the dry-run option.
GuiOptions ==
  {o \in [dry_run : BOOLEAN, skip_existing_db : BOOLEAN,
          skip_existing_xwiki : BOOLEAN, wiki_url : {"", WikiUrl}] :
     ~o.dry_run => o.wiki_url = WikiUrl}

\* wiki_url or "dry-run" (app.py:1356, 1405)
url_or_dry_run(wiki_url) == IF wiki_url = "" THEN "dry-run" ELSE wiki_url

\* the connection test that ends the session as failed (app.py:1363-1376,
\* 906-911)
gui_connection_fatal(dry_run, connected) == ~dry_run /\ ~connected

GuiResult(rs, ss, w, c, f, k) ==
  [records |-> rs, sessions |-> ss, wiki |-> w, completed |-> c, failed |-> f,
   skipped |-> k]

\* run_import / run_evernote_import, one loop iteration (app.py:1396-1483,
\* 943-1021) for a note with identifier id and title; c, f, k are the
\* completed, failed and skipped counters
gui_import_note(rs0, old, ss, w, o, sid, c, f, k, id, title, env) ==
  LET rs == create_record(rs0, sid, id, url_or_dry_run(o.wiki_url))
      rid == Len(rs)
  IN
  IF o.skip_existing_db /\ ~o.dry_run /\ is_note_imported(rs, old, id, o.wiki_url)
    THEN GuiResult(update_record_status(rs, rid, ST_SKIPPED, None,
                                        "Already imported (database)"),
                   ss, w, c, f, k + 1)
  ELSE IF ~env.conv_ok
    THEN GuiResult(update_record_status(rs, rid, ST_FAILED, None, "exception"),
                   update_session_counts(ss, sid, c, f + 1, k), w, c, f + 1, k)
  ELSE IF o.skip_existing_xwiki /\ ~o.dry_run
          /\ page_exists(w, page_name(title), env.exists_answered)
    THEN GuiResult(update_record_status(rs, rid, ST_SKIPPED, None,
                                        "Already exists in XWiki"),
                   ss, w, c, f, k + 1)
  ELSE IF o.dry_run
    THEN GuiResult(update_record_status(rs, rid, ST_COMPLETED,
                                        dry_run_url(page_name(title)), None),
                   update_session_counts(ss, sid, c + 1, f, k), w, c + 1, f, k)
  ELSE
    LET res == create_or_update_page(w, o.wiki_url, page_name(title), env.put_ok,
                                     env.verify_answered)
    IN IF res.success
         THEN GuiResult(update_record_status(rs, rid, ST_COMPLETED, res.page_url, None),
                        update_session_counts(ss, sid, c + 1, f, k),
                        res.wiki, c + 1, f, k)
         ELSE GuiResult(update_record_status(rs, rid, ST_FAILED, None, res.error),
                        update_session_counts(ss, sid, c, f + 1, k),
                        res.wiki, c, f + 1, k)

\* run_import / run_evernote_import up to the loop (app.py:1329-1393,
\* 881-923): note count, create_session, connection test
GuiStart ==
  /\ frontend = "gui"
  /\ \E o \in GuiOptions, connected \in BOOLEAN, n \in 0..MaxBatch :
       /\ NewRun(o)
       /\ total_notes' = n
       /\ conn' = IF o.dry_run \/ n = 0 THEN "untested"
                  ELSE IF connected THEN "ok" ELSE "failed"
       /\ IF n = 0
            THEN /\ pc' = "done"
                 /\ session_id' = 0
                 /\ sessions' = <<>>
          ELSE LET ss == create_session(<<>>, url_or_dry_run(o.wiki_url), n)
               IN /\ session_id' = Len(ss)
                  /\ IF gui_connection_fatal(o.dry_run, connected)
                       THEN /\ sessions' = finish_session(ss, Len(ss), ST_FAILED)
                            /\ pc' = "exit"
                       ELSE /\ sessions' = ss
                            /\ pc' = "loop"
  /\ records' = <<>>
  /\ imported' = imported \cup completed_rows(records)
  /\ UNCHANGED <<frontend, trackerVars, clientVars, convVars, wiki>>

\* one iteration of the GUI loop: create_record and what follows
GuiProcessNote ==
  /\ frontend = "gui"
  /\ pc = "loop"
  /\ idx < total_notes
  /\ \E note \in NotePool, env \in Envs :
       \E r \in {gui_import_note(records, imported, sessions, wiki, opts, session_id,
                                 completed, failed, skipped,
                                 generate_note_identifier(note.title, note.created),
                                 note.title, env)} :
          /\ records' = r.records
          /\ sessions' = r.sessions
          /\ wiki' = r.wiki
          /\ completed' = r.completed
          /\ failed' = r.failed
          /\ skipped' = r.skipped
  /\ idx' = idx + 1
  /\ UNCHANGED <<frontend, pc, opts, runs, total_notes, cur, uploaded, last, fileAtStart, conn,
                 trackerVars, clientVars, convVars, imported, session_id>>

\* the notes are exhausted: finish_session (app.py:1485-1487, 1023-1025)
GuiFinish ==
  /\ frontend = "gui"
  /\ pc = "loop"
  /\ idx = total_notes
  /\ sessions' = finish_session(sessions, session_id,
                                IF failed = 0 THEN ST_COMPLETED ELSE ST_FAILED)
  /\ pc' = "done"
  /\ UNCHANGED <<frontend, opts, runs, total_notes, idx, cur, uploaded, completed,
                 failed, skipped, last, fileAtStart, conn, trackerVars, clientVars, convVars, wiki,
                 records, imported, session_id>>

InitImport ==
  /\ IdleConverter
  /\ progress = ImportProgress
  /\ state_file = Absent
  /\ lastOp = Called("init", None)
  /\ lastRet = NoRet
  /\ nops = 0
  /\ frontend \in {"cli", "gui"}
  /\ pc = "idle"
  /\ opts = None
  /\ runs = 0
  /\ total_notes = 0
  /\ idx = 0
  /\ cur = None
  /\ uploaded = 0
  /\ completed = 0
  /\ failed = 0
  /\ skipped = 0
  /\ last = NoLast
  /\ fileAtStart = Absent
  /\ conn = "untested"
  /\ wiki = {}
  /\ sessions = <<>>
  /\ records = <<>>
  /\ imported = {}
  /\ session_id = 0

Next ==
  \/ CliStart
  \/ CliNextNote
  \/ CliProcessNote
  \/ CliFinish
  \/ GuiStart
  \/ GuiProcessNote
  \/ GuiFinish
  \/ Interrupt

Spec == InitImport /\ [][Next]_vars

(***************************************************************************)
(* Properties of the tracker API (SpecTracker).                            *)
(***************************************************************************)
\* the state file holds a JSON document of the shape save() writes
WellFormed(f) ==
  /\ f.t = "obj"
  /\ get(f.v, "notes", JObj(EmptyDict)).t = "obj"
  /\ \A i \in DOMAIN get(f.v, "notes", JObj(EmptyDict)).v :
       entry_error(get(f.v, "notes", JObj(EmptyDict)).v[i]) = "ok"

\* the tracker state a well-formed state file stands for
Persisted(f) ==
  LET nv == get(f.v, "notes", JObj(EmptyDict)).v
  IN [wiki_url |-> get(f.v, "wiki_url", ""), space |-> get(f.v, "space", ""),
      total_notes |-> get(f.v, "total_notes", 0),
      notes |-> [i \in DOMAIN nv |-> entry_note(nv[i])]]

\* C3: register_note on an identifier that is already tracked changes no
\* record (status, title, error, page_url, source_file of that record and of
\* every other record stay as they were), and an identifier that was
\* processed before the call is still processed after it.
C3_RegisterIdempotent ==
  [][ (lastOp'.op = "register_note" /\ lastOp'.identifier \in DOMAIN progress.notes)
        => /\ progress'.notes = progress.notes
           /\ (is_processed(progress, lastOp'.identifier)
                 => is_processed(progress', lastOp'.identifier)) ]_vars

\* C3 witness: a register call made on an identifier that was registered and
\* marked uploaded before; it is still uploaded and processed
C3_Witness ==
  /\ lastOp.op = "register_note"
  /\ lastOp.identifier \in DOMAIN progress.notes
  /\ progress.notes[lastOp.identifier].status = UPLOADED
  /\ is_processed(progress, lastOp.identifier)

\* C9: load() never raises and has exactly two outcomes, whatever was in
\* memory before: a well-formed state file is restored exactly, and with an
\* absent or corrupt one the tracker holds a fresh state with no records.
C9_LoadTwoOutcomes ==
  lastOp.op = "load" =>
    /\ ~lastRet.raised
    /\ WellFormed(state_file) => progress = Persisted(state_file)
    /\ ~WellFormed(state_file) => progress.notes = EmptyDict

\* C10: after reset() there are no records in memory and no state file, so
\* a load() made right after it returns False and no identifier is processed.
C10_ResetClearsBoth ==
  lastOp.op = "reset" =>
    /\ progress.notes = EmptyDict
    /\ state_file = Absent
    /\ \A o \in load(progress, state_file) :
         /\ ~o.raised
         /\ o.ret = FALSE
         /\ \A i \in Ids : ~is_processed(o.progress, i)

\* C10 witness: reset() was called on a tracker that had persisted records
C10_Witness ==
  /\ lastOp.op = "reset"
  /\ nops >= 3
  /\ state_file = Absent


(***************************************************************************)
(* Properties of the import runs (Spec).                                   *)
(***************************************************************************)
\* the records of a state file written by save()
NotesOf(f) == IF f.t = "obj" THEN Persisted(f).notes ELSE EmptyDict

\* the records the current run found in the state file, and those there now
StartNotes == NotesOf(fileAtStart)
FileNotes == NotesOf(state_file)

Terminal == {UPLOADED, FAILED, SKIPPED}

\* the record kept under id in a mapping, or None
RecordOf(notes, id) == IF id \in DOMAIN notes THEN notes[id] ELSE None

\* C1: write-through persistence.  When register_note has created a pending
\* record and returned, the state file holds exactly the in-memory records;
\* and at every point of the import loop the state file and the memory agree
\* on every record but that of the note in flight.
C1_WriteThrough ==
  (frontend = "cli" /\ pc \in {"loop", "registered"}) =>
    /\ (pc = "registered" /\ cur.created) => FileNotes = progress.notes
    /\ \A id \in Ids :
         (pc = "registered" /\ id = cur.id)
           \/ RecordOf(FileNotes, id) = RecordOf(progress.notes, id)

\* C2: within one run the status of a tracked identifier changes only from
\* pending to uploaded, failed or skipped (so at most once): a terminal
\* status is never replaced by another status.
C2_StatusChangesOnce ==
  [][ (frontend = "cli" /\ runs' = runs) =>
        \A id \in DOMAIN progress.notes \cap DOMAIN progress'.notes :
          progress'.notes[id].status # progress.notes[id].status
            => /\ progress.notes[id].status = PENDING
               /\ progress'.notes[id].status \in Terminal ]_vars

\* C4: in a run started with --resume, a note whose record in the state file
\* was uploaded or skipped when the run started is neither converted nor
\* uploaded again, and the status and page URL of its record in the state
\* file stay what they were.
C4_ResumeNoReprocessing ==
  (frontend = "cli" /\ runs > 0 /\ opts.resume) =>
    \A id \in DOMAIN StartNotes :
      StartNotes[id].status \in {UPLOADED, SKIPPED} =>
        /\ (last # NoLast /\ last.id = id) => last.outcome = "already_processed"
        /\ id \in DOMAIN FileNotes
        /\ FileNotes[id].status = StartNotes[id].status
        /\ FileNotes[id].page_url = StartNotes[id].page_url
        /\ pc \in {"loop", "registered", "done"} =>
             /\ progress.notes[id].status = StartNotes[id].status
             /\ progress.notes[id].page_url = StartNotes[id].page_url

\* C4 witness: a resumed run has ended after passing over a note that an
\* earlier run had left as skipped in the state file
C4_Witness ==
  /\ frontend = "cli"
  /\ pc = "done"
  /\ opts.resume
  /\ last # NoLast
  /\ last.id \in DOMAIN StartNotes
  /\ StartNotes[last.id].status = SKIPPED
  /\ last.outcome = "already_processed"

\* C5: in a run started with --resume, with or without --retry-failed, a
\* note whose identifier was not in the loaded state, or was pending there,
\* is converted and ends in a terminal status.
C5_ResumeProcessesNewNotes ==
  (frontend = "cli" /\ runs > 0 /\ opts.resume /\ last # NoLast
     /\ (last.id \notin DOMAIN StartNotes \/ StartNotes[last.id].status = PENDING))
    => /\ last.outcome \in ConvertedOutcomes
       /\ pc \in {"loop", "registered", "done"} =>
            progress.notes[last.id].status \in Terminal

\* C6: in a run started with --resume, a note that the loaded state has as
\* failed is converted again only when --retry-failed is given; without it
\* the note is passed over as previously failed and stays failed.
C6_RetryFailedOnlyOnRequest ==
  (frontend = "cli" /\ runs > 0 /\ opts.resume /\ last # NoLast
     /\ last.id \in DOMAIN StartNotes /\ StartNotes[last.id].status = FAILED)
    => /\ last.outcome \in ConvertedOutcomes => opts.retry_failed
       /\ ~opts.retry_failed =>
            /\ last.outcome = "previously_failed"
            /\ RecordOf(FileNotes, last.id).status = FAILED

\* the rows of the current session with a status
RowsWith(status) == {k \in 1..Len(records) : records[k].status = status}

\* C7: a note whose conversion or upload fails is recorded as failed with an
\* error detail (in the tracker and its state file, or in its import
\* record), the failed counter grows by exactly one for it and for no other
\* note, and the loop goes on: the run reaches its end only when every note
\* of the batch was taken, each counted once.
C7_FailureIsolation ==
  /\ [](frontend = "cli" =>
          /\ (pc = "loop" /\ last # NoLast /\ last.outcome \in FailedOutcomes) =>
               /\ progress.notes[last.id].status = FAILED
               /\ progress.notes[last.id].error # None
               /\ RecordOf(FileNotes, last.id) = progress.notes[last.id]
          /\ pc \in {"loop", "registered"} => uploaded + failed + skipped = idx
          /\ (pc = "done" /\ total_notes > 0) =>
               /\ idx = total_notes
               /\ uploaded + failed + skipped = total_notes)
  /\ [](frontend = "gui" =>
          /\ pc \in {"loop", "done"} =>
               /\ failed = Cardinality(RowsWith(ST_FAILED))
               /\ \A k \in RowsWith(ST_FAILED) : records[k].error_message # None
               /\ Len(records) = idx
               /\ completed + failed + skipped = idx
          /\ (pc \in {"loop", "done"} /\ total_notes > 0) =>
               sessions[session_id].failed_notes = failed
          /\ (pc = "done" /\ total_notes > 0) => idx = total_notes)
  /\ [][ (frontend = "cli" /\ pc = "registered" /\ pc' # "registered") =>
           /\ pc' = "loop"
           /\ idx' = idx + 1
           /\ last'.id = cur.id
           /\ failed' = failed + (IF last'.outcome \in FailedOutcomes THEN 1 ELSE 0)
           /\ last'.outcome \in FailedOutcomes =>
                progress'.notes[cur.id].status = FAILED
           /\ \A id \in DOMAIN progress.notes \ {cur.id} :
                progress'.notes[id] = progress.notes[id] ]_vars

\* C7 witness: a batch of three notes has ended with one failure; the failed
\* note is recorded as failed and a note taken after it was uploaded
C7_Witness ==
  /\ frontend = "cli"
  /\ pc = "done"
  /\ ~opts.resume
  /\ total_notes = 3
  /\ failed = 1
  /\ uploaded = 2
  /\ last.outcome = "uploaded"
  /\ \E id \in DOMAIN progress.notes :
       /\ id # last.id
       /\ progress.notes[id].status = FAILED
       /\ progress.notes[id].error = "upload error"

\* C8: when the connection test of a run that is not a dry run fails, the
\* run ends at once: no note is taken, converted or uploaded, no progress
\* record is created or changed in memory or in the state file, no import
\* record is created, the destination is not touched, and the GUI session
\* is finished as failed; only a new run can follow.
C8_UnreachableIsFatal ==
  /\ [](conn = "failed" =>
          /\ pc = "exit"
          /\ ~opts.dry_run
          /\ idx = 0
          /\ last = NoLast
          /\ uploaded + completed + failed + skipped = 0
          /\ progress.notes = EmptyDict
          /\ state_file = fileAtStart
          /\ records = <<>>
          /\ frontend = "gui" => sessions[session_id].status = ST_FAILED)
  /\ [][ conn' = "failed" => (runs' = runs + 1 /\ wiki' = wiki /\ state_file' = state_file)
       ]_vars

\* C8 witness: a GUI run whose connection test failed, with its session
\* finished as failed, started after an earlier run had persisted records
C8_Witness ==
  /\ conn = "failed"
  /\ pc = "exit"
  /\ frontend = "gui"
  /\ runs = 2
  /\ wiki # {}
  /\ sessions[session_id].status = ST_FAILED


(***************************************************************************)
(* Properties of the tracker queries (SpecTracker).                        *)
(***************************************************************************)
\* the status recorded for identifier, or "untracked"
StatusOf(identifier) ==
  IF identifier \in DOMAIN progress.notes
    THEN progress.notes[identifier].status
    ELSE "untracked"

\* C11: after any sequence of tracker operations, is_processed(identifier)
\* returns true exactly when the identifier is tracked with status uploaded
\* or skipped; it returns false for pending, failed and untracked
\* identifiers.
C11_IsProcessedIffDone ==
  lastOp.op = "is_processed" =>
    /\ ~lastRet.raised
    /\ lastRet.ret = (StatusOf(lastOp.identifier) \in {UPLOADED, SKIPPED})

\* C11 witness: is_processed has answered true for a skipped note while
\* another identifier is tracked as failed
C11_Witness ==
  /\ lastOp.op = "is_processed"
  /\ lastRet.ret = TRUE
  /\ StatusOf(lastOp.identifier) = SKIPPED
  /\ \E i \in Ids : StatusOf(i) = FAILED

\* C12: after any sequence of tracker operations, should_retry(identifier)
\* returns true exactly when the identifier is untracked or its status is
\* failed (false for pending, uploaded and skipped), and no identifier has
\* both is_processed and should_retry true.
C12_ShouldRetryIffFailedOrUnknown ==
  /\ lastOp.op = "should_retry" =>
       /\ ~lastRet.raised
       /\ lastRet.ret = (StatusOf(lastOp.identifier) \in {FAILED, "untracked"})
  /\ \A i \in Ids : ~(is_processed(progress, i) /\ should_retry(progress, i))

\* C12 witness: should_retry has answered false for a pending note while
\* another identifier is untracked
C12_Witness ==
  /\ lastOp.op = "should_retry"
  /\ lastRet.ret = FALSE
  /\ StatusOf(lastOp.identifier) = PENDING
  /\ \E i \in Ids : StatusOf(i) = "untracked"


(***************************************************************************)
(* A client of the converter: one ENMLToXWikiConverter is built for a note *)
(* and its methods are called.                                             *)
(***************************************************************************)
RECURSIVE enml(_)
\* the markup of an element (attributes left out)
enml(element) ==
  <<open_tag(element.tag)>> \o element.text
    \o Concat([k \in 1..Len(element.children) |-> enml(element.children[k])])
    \o <<close_tag(element.tag)>> \o element.tail

\* all sequences over S of length lo..hi
SeqsOf(S, lo, hi) == UNION {[1..n -> S] : n \in lo..hi}

Leaf(tag, text, tail) == Elem(tag, NoAttrs, text, <<>>, tail)
Node(tag, children) == Elem(tag, NoAttrs, <<>>, children, <<>>)

\* a note whose content is the markup of root, parsed by the XML parser
NoteOf(root, attachments) ==
  Note(<<"<?xml?>", "<!DOCTYPE>">> \o enml(root), "root", root, "root", root, attachments)

\* bundled attachments: MD5 hashes of their data; the second and the third
\* hold the same data under two names
Att1 == Attachment(<<"a", ".", "png">>, "image/png", <<"a">>, md5(<<"a">>))
Att2 == Attachment(<<"b", ".", "pdf">>, "application/pdf", <<"b">>, md5(<<"b">>))
Att3 == Attachment(<<"B", ".", "PNG">>, "image/png", <<"b">>, md5(<<"b">>))
AttachmentLists == SeqsOf({Att1, Att2, Att3}, 0, MaxAttachments)

\* str.upper() on one token
upper_token(c) ==
  CASE c = "a" -> "A" [] c = "b" -> "B" [] c = "c" -> "C" [] c = "d" -> "D"
    [] c = "e" -> "E" [] c = "f" -> "F" [] OTHER -> c

\* the ways a reference may write a hash: as stored, in upper case, with
\* hyphens; and references that are no hash of an attachment
Spellings(h) ==
  {h, [k \in 1..Len(h) |-> upper_token(h[k])],
   SubSeq(h, 1, 30) \o <<"-">> \o SubSeq(h, 31, 32),
   <<"-">> \o [k \in 1..Len(h) |-> upper_token(h[k])] \o <<"-">>}
References ==
  UNION {Spellings(md5(d)) : d \in {<<"a">>, <<"b">>, <<"c">>}} \cup {<<>>, <<"-">>}

\* external images and the responses of their servers
Url1 == Url("http://h/a.png", "http", <<"a", ".", "png">>)
Url2 == Url("https://h/A.PNG", "https", <<"A", ".", "PNG">>)
Url3 == Url("http://h/pic", "http", <<"pic">>)
Responses == {NoResponse, Response("image/png", <<"x">>), Response("text/html", <<"x">>)}
Nets == [{Url1.text, Url2.text, Url3.text} -> Responses]

Img(src, tail) == Elem("img", [NoAttrs EXCEPT !.src = src], <<>>, <<>>, tail)
ImageElements ==
  {Img(Url1, <<"t">>), Img(Url2, <<>>), Img(Url3, <<>>),
   Img(DataUri("data:image/png", "image/png", <<"d">>, TRUE), <<>>),
   Img(Url("pic.png", "other", <<>>), <<>>)}

\* documents of images
ImageDocs == {Node("en-note", images) : images \in SeqsOf(ImageElements, 1, MaxImages)}

RECURSIVE NestedList(_)
\* a list of two items for each type in types, each list inside the first
\* item of the list before it
NestedList(types) ==
  Elem(Head(types), NoAttrs, <<>>,
       << Elem("li", NoAttrs, <<"a">>,
               IF Len(types) > 1 THEN <<NestedList(Tail(types))>> ELSE <<>>, <<>>),
          Leaf("li", <<"b">>, <<>>) >>,
       <<>>)

\* documents of nested lists, and of an item outside every list
ListDocs ==
  {Node("en-note", <<NestedList(types)>>) : types \in SeqsOf({"ul", "ol"}, 1, MaxDepth)}
    \cup {Node("en-note", <<Leaf("li", <<"a">>, <<>>)>>)}

\* documents of tables: rows of up to MaxCells cells, directly in the table
\* or in a grouping element
Cells == {Leaf("td", <<"a">>, <<>>), Leaf("th", <<"h">>, <<>>),
          Leaf("td", <<"a", "\n", "b">>, <<>>)}
Rows == {Node("tr", cells) : cells \in SeqsOf(Cells, 0, MaxCells)}
TableDocs ==
  {Node("en-note", <<Node("table", rows)>>) : rows \in SeqsOf(Rows, 1, MaxRows)}
    \cup {Node("en-note", <<Node("table", <<Node(group, rows)>>)>>) :
            group \in {"thead", "tbody", "tfoot"}, rows \in SeqsOf(Rows, 1, MaxRows)}
    \cup {Node("en-note", <<Node("table", <<Node("thead", <<head>>), Node("tbody", <<row>>)>>)>>) :
            head \in Rows, row \in Rows}

\* documents of text, line breaks and blocks
Blocks == {Leaf("br", <<>>, <<>>), Leaf("p", <<"a">>, <<" ">>), Leaf("hr", <<>>, <<"t">>),
           Leaf("b", <<"a">>, <<"\n">>), Leaf("font", <<" ", "a", "&amp;">>, <<>>)}
TextDocs == {Node("en-note", blocks) : blocks \in SeqsOf(Blocks, 0, MaxBlocks)}

\* documents that refer to attachments
MediaDocs ==
  {Node("en-note", <<Elem("en-media", [NoAttrs EXCEPT !.hash = r], <<>>, <<>>, <<"t">>)>>) :
     r \in References}

\* contents the XML parser builds no tree for
MalformedContents ==
  {<<"a">>, <<" ">>, <<"<?xml?>">>, <<"<p>", " ", "a", "\n", "\n", "\n", "b", "</p>">>,
   <<"a", "&lt;", "<b>">>}
HtmlRoot(content) ==
  Node("html", <<Node("body", <<Leaf("p", _strip_html(body_of(content)), <<>>)>>)>>)
MalformedNotes ==
  {Note(content, xml, NoElement, html, IF html = "root" THEN HtmlRoot(content) ELSE NoElement,
        <<>>) :
     content \in MalformedContents, xml \in ParserOutcomes \ {"root"}, html \in ParserOutcomes}

Notes ==
  {NoteOf(root, attachments) :
     root \in ImageDocs \cup MediaDocs, attachments \in AttachmentLists}
    \cup {NoteOf(root, <<>>) : root \in ListDocs \cup TableDocs \cup TextDocs}
    \cup MalformedNotes
    \cup {NoNote}

\* the values the other programs' variables have while the converter runs
IdleTracker ==
  /\ progress = ImportProgress
  /\ state_file = Absent
  /\ lastOp = Called("init", None)
  /\ lastRet = NoRet
  /\ nops = 0
  /\ pc = "idle"
  /\ opts = None
  /\ runs = 0
  /\ total_notes = 0
  /\ idx = 0
  /\ cur = None
  /\ uploaded = 0
  /\ completed = 0
  /\ failed = 0
  /\ skipped = 0
  /\ last = NoLast
  /\ fileAtStart = Absent
  /\ conn = "untested"
  /\ wiki = {}
  /\ sessions = <<>>
  /\ records = <<>>
  /\ imported = {}
  /\ session_id = 0

InitConverter ==
  /\ IdleTracker
  /\ frontend = "converter"
  /\ conv_note \in Notes
  /\ converter = ENMLToXWikiConverter(conv_note, TRUE)
  /\ conv_last = NoCall
  /\ ncalls = 0
  /\ id_calls = <<>>

Call(c, op, arg, raised, exception, value) ==
  /\ ncalls < MaxCalls
  /\ converter' = c
  /\ conv_last' = [op |-> op, arg |-> arg, raised |-> raised, exception |-> exception,
                   value |-> value]
  /\ ncalls' = ncalls + 1
  /\ UNCHANGED <<conv_note, id_calls, trackerVars, clientVars, importVars>>

\* converter.convert(), on a converter that has not walked yet
CallConvert ==
  /\ ncalls = 0
  /\ \E net \in Nets :
       \E r \in {convert(converter, conv_note, net)} :
         Call(r.converter, "convert", net, r.raised, r.exception, r.value)

\* converter._find_attachment_by_hash(reference)
CallFindAttachment ==
  \E r \in References :
    Call(converter, "_find_attachment_by_hash", r, FALSE, None,
         _find_attachment_by_hash(converter, r))

\* converter._handle_image(element), as the walk calls it for an img element
CallHandleImage ==
  /\ conv_last.op \in {"new", "_handle_image"}
  /\ \E element \in ImageElements, response \in Responses :
       Call(_handle_image(converter, element, [u \in {element.attrs.src.text} |-> response]),
            "_handle_image", [element |-> element, response |-> response], FALSE, None, <<>>)

NextConverter ==
  \/ CallConvert
  \/ CallFindAttachment
  \/ CallHandleImage

SpecConverter == InitConverter /\ [][NextConverter]_vars


(***************************************************************************)
(* Properties of the converter (SpecConverter).                            *)
(***************************************************************************)
\* the document tree could not be built for the note: the XML parser built
\* no root, or it raised and the HTML parser raised or built no root
TreeConstructionFailed(n) ==
  \/ n.xml = "none"
  \/ n.xml \in {"XMLSyntaxError", "Exception"} /\ n.html # "root"

\* C13: convert() never raises, whatever the note content; whenever the
\* construction of the document tree fails (an exception of either parser,
\* or no root element), it returns the plain-text fallback: the content with
\* the tags stripped and the entities decoded.
C13_ConvertNeverRaises ==
  conv_last.op = "convert" =>
    /\ ~conv_last.raised
    /\ (conv_note.content # <<>> /\ TreeConstructionFailed(conv_note)) =>
         conv_last.value = _strip_html(body_of(conv_note.content))

NormalizedHash(h) == remove_hyphens(lower(h))

\* the positions of the bundled attachments whose normalized hash equals
\* the normalized reference
Matching(reference) ==
  {k \in 1..Len(conv_note.attachments) :
     NormalizedHash(conv_note.attachments[k].hash) = NormalizedHash(reference)}

\* C15 as stated: resolve(r) returns every bundled attachment whose
\* normalized hash equals the normalized reference, and not-found when
\* there is none.
C15_ResolvesEveryMatch ==
  conv_last.op = "_find_attachment_by_hash" =>
    /\ \A k \in Matching(conv_last.arg) : conv_last.value = conv_note.attachments[k]
    /\ Matching(conv_last.arg) = {} => conv_last.value = NotFound

\* C15: attachment lookup is case- and separator-insensitive: resolve(r)
\* returns the last bundled attachment whose normalized hash (lower case,
\* hyphens removed) equals the normalized reference, and not-found when no
\* bundled attachment has an equal normalized hash.
C15_ResolvesLastMatch ==
  conv_last.op = "_find_attachment_by_hash" =>
    IF Matching(conv_last.arg) # {}
      THEN conv_last.value =
             conv_note.attachments[CHOOSE k \in Matching(conv_last.arg) :
                                     \A j \in Matching(conv_last.arg) : j <= k]
      ELSE conv_last.value = NotFound

\* C15 witness: a reference written in upper case with hyphens has resolved
\* to the first of two attachments with different hashes
C15_Witness ==
  /\ conv_last.op = "_find_attachment_by_hash"
  /\ Len(conv_note.attachments) = 2
  /\ conv_last.value = conv_note.attachments[1]
  /\ conv_note.attachments[2].hash # conv_note.attachments[1].hash
  /\ conv_last.arg # conv_last.value.hash
  /\ \E k \in 1..Len(conv_last.arg) : conv_last.arg[k] = "-"
  /\ lower(conv_last.arg) # conv_last.arg

\* a call of _handle_image on an img with an http(s) source
ExternalImageCall(call) ==
  /\ call.op = "_handle_image"
  /\ call.arg.element.attrs.src.scheme \in {"http", "https"}

\* what download_image returned to that call
Downloaded(call) == download_image(call.arg.element.attrs.src, call.arg.response)

\* the downloaded images that were named by _get_unique_filename (the images
\* decoded from data URIs are named "embedded_...")
ExternalImages(c) ==
  SelectSeq(c.downloaded_images, LAMBDA a : a.filename[1] # "embedded_")

\* C16: for an external image that was downloaded, the name given to it is
\* the candidate itself when its lowercased form is not in the used set,
\* and otherwise the candidate with the smallest suffix N >= 1 before the
\* extension whose lowercased form is not in the used set; the name is then
\* in the used set.  So no name given to an external image equals, case
\* ignored, a bundled attachment's filename or a name given before.
C16_UniqueFilenames ==
  /\ [][ (ncalls' = ncalls + 1 /\ ExternalImageCall(conv_last')
            /\ Downloaded(conv_last') # NotFound) =>
           LET candidate == Downloaded(conv_last').filename
               images == converter'.downloaded_images
               name == images[Len(images)].filename
           IN /\ Len(images) = Len(converter.downloaded_images) + 1
              /\ IF lower(candidate) \notin converter.used_filenames
                   THEN name = candidate
                   ELSE \E N \in 1..(Cardinality(converter.used_filenames) + 1) :
                          /\ name = suffixed(candidate, N)
                          /\ \A M \in 1..(N - 1) :
                               lower(suffixed(candidate, M)) \in converter.used_filenames
              /\ lower(name) \notin converter.used_filenames
              /\ converter'.used_filenames = converter.used_filenames \cup {lower(name)}
       ]_vars
  /\ [](LET images == ExternalImages(converter)
        IN /\ \A i, j \in 1..Len(images) :
                i # j => lower(images[i].filename) # lower(images[j].filename)
           /\ \A i \in 1..Len(images), k \in 1..Len(conv_note.attachments) :
                lower(images[i].filename) # lower(conv_note.attachments[k].filename))

\* C16 witness: the second external image of a note that bundles a.png was
\* named A_2.PNG, after a_1.png was given to the first
C16_Witness ==
  /\ conv_last.op = "_handle_image"
  /\ Len(converter.downloaded_images) = 2
  /\ converter.downloaded_images[1].filename = <<"a", "_", "1", ".", "png">>
  /\ converter.downloaded_images[2].filename = <<"A", "_", "2", ".", "PNG">>
  /\ \E k \in 1..Len(conv_note.attachments) :
       conv_note.attachments[k].filename = <<"a", ".", "png">>

\* the number of positions of s that hold token t
Occurrences(s, t) == Cardinality({k \in 1..Len(s) : s[k] = t})

\* the reference written for an external image that could not be fetched
ExternalPlaceholder(src) ==
  <<"[[image:", src.text, "]]", " ", "//(external", " ", "image)//">>

\* the img children of the root of the note
ImagesOf(n) == SelectSeq(n.root.children, LAMBDA e : e.tag = "img")

\* C17: when the fetch of an external image fails or returns something that
\* is no image, _handle_image writes the URL as an image reference marked
\* as external, adds nothing to the downloaded images, and the walk goes
\* on: the conversion of a note of images does not raise, writes one
\* reference per image, and marks as external exactly the images whose
\* fetch failed.
C17_FetchFailureIsNotFatal ==
  /\ [][ (ncalls' = ncalls + 1 /\ ExternalImageCall(conv_last')
            /\ Downloaded(conv_last') = NotFound) =>
           /\ converter'.output =
                converter.output \o ExternalPlaceholder(conv_last'.arg.element.attrs.src)
           /\ converter'.downloaded_images = converter.downloaded_images
           /\ converter'.used_filenames = converter.used_filenames
           /\ ~conv_last'.raised ]_vars
  /\ []((conv_last.op = "convert" /\ conv_note.xml = "root"
           /\ ImagesOf(conv_note) = conv_note.root.children) =>
          LET images == ImagesOf(conv_note)
              failing == {k \in 1..Len(images) :
                            /\ images[k].attrs.src.scheme \in {"http", "https"}
                            /\ download_image(images[k].attrs.src,
                                              conv_last.arg[images[k].attrs.src.text]) = NotFound}
          IN /\ ~conv_last.raised
             /\ Occurrences(converter.output, "[[image:") = Len(images)
             /\ Occurrences(converter.output, "//(external") = Cardinality(failing)
             /\ Len(converter.downloaded_images) = Len(images) - Cardinality(failing)
                  - Cardinality({k \in 1..Len(images) :
                                   images[k].attrs.src.scheme = "other"}))

\* C17 witness: a note of two external images was converted; the fetch of
\* the first failed, the second was downloaded
C17_Witness ==
  /\ conv_last.op = "convert"
  /\ ~conv_last.raised
  /\ Len(ImagesOf(conv_note)) = 2
  /\ Occurrences(conv_last.value, "//(external") = 1
  /\ Len(converter.downloaded_images) = 1
  /\ conv_last.value[1] = "[[image:"
  /\ conv_last.value[2] = "http://h/a.png"

\* the list types of the ul/ol elements around each li of the tree under
\* element, outermost first, one entry per li in document order
RECURSIVE ListsAround(_, _)
ListsAround(element, lists) ==
  LET inner == IF element.tag \in {"ul", "ol"}
                 THEN Append(lists, list_type(element.tag = "ol")) ELSE lists
  IN (IF element.tag = "li" THEN <<lists>> ELSE <<>>)
       \o Concat([k \in 1..Len(element.children) |->
                    ListsAround(element.children[k], inner)])

\* the one character that stands for a list type in an item prefix
MarkerCharacter(type) == IF type = "1." THEN "1" ELSE "*"

\* the stacks seen by the list items are the lists around them, and no list
\* is left on the stack at the end of the walk
StackFollowsNesting ==
  (conv_last.op = "convert" /\ conv_note.xml = "root" /\ conv_note.root \in ListDocs) =>
    /\ ~conv_last.raised
    /\ converter.list_stack = <<>>
    /\ [i \in 1..Len(converter.items) |-> converter.items[i].stack]
         = ListsAround(conv_note.root, <<>>)

\* the marker characters of a prefix: the prefix without the dot that ends
\* the marker of a numbered item
MarkerCharacters(prefix) ==
  IF prefix # <<>> /\ prefix[Len(prefix)] = "."
    THEN SubSeq(prefix, 1, Len(prefix) - 1) ELSE prefix

\* C18: at a list item inside k nested lists the stack holds the k lists,
\* outermost first, and the prefix of the item's line is exactly k marker
\* characters, the one of each list of the stack in stack order, for ul and
\* ol alike; the stack is empty when the walk ends.
C18_OneMarkerCharacterPerLevel ==
  /\ StackFollowsNesting
  /\ (conv_last.op = "convert" /\ conv_note.xml = "root" /\ conv_note.root \in ListDocs) =>
       \A i \in 1..Len(converter.items) :
         LET item == converter.items[i]
             characters == MarkerCharacters(item.prefix)
         IN /\ Len(characters) = Len(item.stack)
            /\ \A k \in 1..Len(item.stack) :
                 characters[k] = MarkerCharacter(item.stack[k])

\* the pieces of s between the tokens sep
RECURSIVE SplitAt(_, _)
SplitAt(s, sep) ==
  IF \E k \in 1..Len(s) : s[k] = sep
    THEN LET k == CHOOSE i \in 1..Len(s) : s[i] = sep /\ \A j \in 1..(i - 1) : s[j] # sep
         IN <<SubSeq(s, 1, k - 1)>> \o SplitAt(SubSeq(s, k + 1, Len(s)), sep)
    ELSE <<s>>

\* the lines of the output that are not empty
OutputLines(c) == SelectSeq(SplitAt(c.output, "\n"), LAMBDA line : line # <<>>)

\* the cells of a line of a table: what follows each cell delimiter
CellsOfLine(line) == Tail(SplitAt(line, "|"))

\* the tr elements of a table in document order, those inside thead, tbody
\* and tfoot included
RowsOfTable(table) ==
  Concat([k \in 1..Len(table.children) |->
            IF table.children[k].tag \in {"thead", "tbody", "tfoot"}
              THEN table.children[k].children ELSE <<table.children[k]>>])

\* the td and th children of a row
CellsOfRow(row) == SelectSeq(row.children, LAMBDA e : e.tag \in {"td", "th"})

\* a table document was converted
TableConverted ==
  /\ conv_last.op = "convert"
  /\ conv_note.xml = "root"
  /\ conv_note.root \in TableDocs

\* the table has a cell whose text holds a line break
HasMultilineCell(table) ==
  \E r \in 1..Len(RowsOfTable(table)) :
    \E e \in 1..Len(RowsOfTable(table)[r].children) :
      \E k \in 1..Len(RowsOfTable(table)[r].children[e].text) :
        RowsOfTable(table)[r].children[e].text[k] = "\n"

\* the output of a converted table is one line per row that has a cell, in
\* document order, each with the cells of its row, a th cell starting with =
OneLinePerRow ==
  LET rows == SelectSeq(RowsOfTable(conv_note.root.children[1]),
                        LAMBDA row : CellsOfRow(row) # <<>>)
      lines == OutputLines(converter)
  IN /\ Len(lines) = Len(rows)
     /\ \A r \in 1..Len(rows) :
          /\ lines[r][1] = "|"
          /\ Len(CellsOfLine(lines[r])) = Len(CellsOfRow(rows[r]))
          /\ \A k \in 1..Len(CellsOfRow(rows[r])) :
               CellsOfRow(rows[r])[k].tag = "th" =>
                 /\ CellsOfLine(lines[r])[k] # <<>>
                 /\ CellsOfLine(lines[r])[k][1] = "="

\* a table of cells without line breaks comes out as one line per row
SingleLineCellsOneLinePerRow ==
  (TableConverted /\ ~HasMultilineCell(conv_note.root.children[1])) =>
    /\ ~conv_last.raised
    /\ OneLinePerRow
    /\ ~converter.in_table
    /\ converter.table_rows = <<>>
    /\ converter.current_row = <<>>

\* C19: a table is written after its rows are walked as exactly one line
\* per row that has a cell, in document order, with as many cells as the row
\* has td/th children, th cells starting with =, rows inside thead, tbody
\* and tfoot like direct rows; afterwards the converter is not in a table
\* and the row buffer is empty.
C19_TableOneLinePerRow ==
  TableConverted =>
    /\ ~conv_last.raised
    /\ OneLinePerRow
    /\ ~converter.in_table
    /\ converter.table_rows = <<>>


(***************************************************************************)
(* A client of generate_note_identifier: computes identifiers of notes as  *)
(* cli.py and app.py do before they register a note, and registers or      *)
(* marks the note of the latest identifier in between.                     *)
(***************************************************************************)
MaxIdCalls == 3

\* titles of the notes identified: the third is the key of the note titled a
\* that was created at <<1, 0>>
IdTitles == {<<"a">>, <<"b">>, <<"a", "_", "1", "T", "0">>}
IdCreateds == {NoDatetime, <<1, 0>>, <<1, 2>>, <<2, 0>>}

\* no converter, and the converters of the notes that bundle a.png and
\* refer to an attachment
IdNotes ==
  {NoNote} \cup {n \in Notes : /\ n.xml = "root"
                                /\ n.root \in MediaDocs
                                /\ n.attachments = <<Att1>>}

InitIdentifier ==
  /\ IdleTracker
  /\ frontend = "identifier"
  /\ conv_note \in IdNotes
  /\ converter = ENMLToXWikiConverter(conv_note, TRUE)
  /\ conv_last = NoCall
  /\ ncalls = 0
  /\ id_calls = <<>>

\* note_id = generate_note_identifier(note.title, note.created)
CallIdentifier ==
  /\ Len(id_calls) < MaxIdCalls
  /\ \E title \in IdTitles, created \in IdCreateds :
       id_calls' = Append(id_calls, [title |-> title, created |-> created,
                                     value |-> generate_note_identifier(title, created)])
  /\ UNCHANGED <<trackerVars, clientVars, importVars, conv_note, converter, conv_last, ncalls>>

\* tracker.register_note(note_id, note.title, source_file)
RegisterIdentified ==
  /\ id_calls # <<>>
  /\ LET call == id_calls[Len(id_calls)]
     IN Apply(register_note(progress, state_file, call.value, call.title, SourceFile),
              "register_note", call.value)

\* tracker.mark_uploaded(note_id, page_url)
MarkUploadedIdentified ==
  /\ id_calls # <<>>
  /\ LET call == id_calls[Len(id_calls)]
     IN Apply(mark_uploaded(progress, state_file, call.value, "url1"),
              "mark_uploaded", call.value)

NextIdentifier ==
  \/ CallIdentifier
  \/ RegisterIdentified
  \/ MarkUploadedIdentified

SpecIdentifier == InitIdentifier /\ [][NextIdentifier]_vars

(***************************************************************************)
(* Properties of generate_note_identifier (SpecIdentifier).                *)
(***************************************************************************)
\* C20: two calls of generate_note_identifier with equal title and equal
\* timestamp return the same string of 16 characters, whatever the state of
\* the tracker and of the converter at each call, and two calls with the
\* same title and two different timestamps return different strings.
C20_IdentifierIsPure ==
  \A i, j \in 1..Len(id_calls) :
    /\ Len(id_calls[i].value) = 16
    /\ (id_calls[i].title = id_calls[j].title /\ id_calls[i].created = id_calls[j].created)
         => id_calls[i].value = id_calls[j].value
    /\ (/\ id_calls[i].title = id_calls[j].title
        /\ id_calls[i].created # NoDatetime
        /\ id_calls[j].created # NoDatetime
        /\ id_calls[i].created # id_calls[j].created)
         => id_calls[i].value # id_calls[j].value

\* C20 witness: the identifier of a note was computed before and after the
\* note was registered, and for the same title with another timestamp
C20_Witness ==
  /\ Len(id_calls) = 3
  /\ id_calls[1].title = id_calls[2].title
  /\ id_calls[1].created = id_calls[2].created
  /\ id_calls[1].created # NoDatetime
  /\ id_calls[3].title = id_calls[1].title
  /\ id_calls[3].created # NoDatetime
  /\ id_calls[3].created # id_calls[1].created
  /\ id_calls[1].value \in DOMAIN progress.notes
  /\ conv_note # NoNote


(***************************************************************************)
(* A client of ConvertedPage.page_name: reads the page name of one page.   *)
(***************************************************************************)
MaxTitle == 2

\* the characters of the titles: letters, the characters page_name replaces
\* or removes, and the space
TitleChars == {"a", "b", "/", "\\", ":", "?", "*", "\"", "<", ">", "|", " "}

\* short titles of every spelling, and titles around the length limit
PageTitles ==
  SeqsOf(TitleChars, 0, MaxTitle)
    \cup {prefix \o Repeat(<<"a">>, n) \o suffix :
            prefix \in {<<>>, <<"/">>, <<" ">>},
            n \in (PageNameLimit - 1)..(PageNameLimit + 1),
            suffix \in {<<>>, <<"b">>}}

InitPage ==
  /\ IdleTracker
  /\ frontend = "page"
  /\ IdleConverter

\* page.page_name
CallPageName ==
  /\ conv_last.op = "new"
  /\ \E title \in PageTitles :
       Call(converter, "page_name", title, FALSE, None, page_name(title))

NextPage == CallPageName

SpecPage == InitPage /\ [][NextPage]_vars

(***************************************************************************)
(* Properties of page_name (SpecPage).                                     *)
(***************************************************************************)
\* the characters that are unsafe in a path, and the space
PathUnsafe == {"/", "\\", ":", "?", "*", "\"", "<", ">", "|"}

\* the first n characters of s
FirstChars(s, n) == IF Len(s) > n THEN SubSeq(s, 1, n) ELSE s

\* the page name is not empty, not longer than 100 characters, and free of
\* unsafe characters and spaces
PageNameIsSafe(name) ==
  /\ name # <<>>
  /\ name = <<"UntitledNote">> \/ Len(name) <= 100
  /\ \A k \in 1..Len(name) : name[k] \notin PathUnsafe \cup {" "}

\* C21: page_name is the title with every / \ : ? * " < > | and every space
\* removed, cut to its first 100 characters, or the placeholder when
\* nothing is left; so it is never empty, never longer than 100 characters
\* and holds none of those characters.
C21_PageNameRemovesUnsafe ==
  conv_last.op = "page_name" =>
    LET removed == SelectSeq(conv_last.arg, LAMBDA c : c \notin PathUnsafe \cup {" "})
        cut == FirstChars(removed, 100)
    IN /\ conv_last.value = IF cut = <<>> THEN <<"UntitledNote">> ELSE cut
       /\ PageNameIsSafe(conv_last.value)

\* C21 amended: page_name is the title with every / \ : | replaced by a
\* hyphen and every ? * " < > and space removed, cut to its first 100
\* characters, or the placeholder when nothing is left; so it is never
\* empty, never longer than 100 characters and holds none of those
\* characters.
C21_PageNameReplacesOrRemoves ==
  conv_last.op = "page_name" =>
    LET hyphened == [k \in 1..Len(conv_last.arg) |->
                       IF conv_last.arg[k] \in {"/", "\\", ":", "|"}
                         THEN "-" ELSE conv_last.arg[k]]
        removed == SelectSeq(hyphened, LAMBDA c : c \notin {"?", "*", "\"", "<", ">", " "})
        cut == FirstChars(removed, 100)
    IN /\ conv_last.value = IF cut = <<>> THEN <<"UntitledNote">> ELSE cut
       /\ PageNameIsSafe(conv_last.value)

\* C21 witness: the name of a title of more than 100 characters that starts
\* with a slash was read: it is cut and starts with a hyphen
C21_Witness ==
  /\ conv_last.op = "page_name"
  /\ Len(conv_last.arg) > 100
  /\ conv_last.arg[1] = "/"
  /\ Len(conv_last.value) = 100
  /\ conv_last.value[1] = "-"


(***************************************************************************)
(* A client of create_or_update_page: uploads the pages of notes with      *)
(* attachments and records the result as import_notes does.                *)
(***************************************************************************)
\* titles of the notes uploaded: "a?" and "a" have the page name a
UploadTitles == {<<"a">>, <<"b">>, <<"a", "?">>}

InitUpload ==
  /\ IdleTracker
  /\ frontend = "upload"
  /\ IdleConverter

\* one note of import_notes without options: the note is registered, its
\* page is uploaded and the result is recorded (cli.py:172-179, 224-240)
UploadNote ==
  /\ ncalls < MaxCalls
  /\ conv_last.op \in {"new", "create_or_update_page"}
  /\ \E title \in UploadTitles, attachments \in AttachmentLists,
        put_ok \in BOOLEAN, answered \in BOOLEAN :
       \E ok \in [1..Len(attachments) -> BOOLEAN] :
         LET id == generate_note_identifier(title, NoDatetime)
             reg == register_note(progress, state_file, id, title, SourceFile)
             res == create_or_update_page_with(wiki, WikiUrl, page_name(title), attachments,
                                               put_ok, ok, answered)
             r == IF res.success
                    THEN mark_uploaded(reg.progress, reg.state_file, id, res.page_url)
                    ELSE mark_failed(reg.progress, reg.state_file, id, res.error)
         IN /\ progress' = r.progress
            /\ state_file' = r.state_file
            /\ wiki' = res.wiki
            /\ conv_last' = [op |-> "create_or_update_page",
                             arg |-> [id |-> id, name |-> page_name(title),
                                      attachments |-> attachments, put_ok |-> put_ok,
                                      ok |-> ok, answered |-> answered],
                             raised |-> FALSE, exception |-> None, value |-> res]
            /\ ncalls' = ncalls + 1
  /\ UNCHANGED <<clientVars, runVars, sessions, records, imported, session_id,
                 conv_note, converter, id_calls>>

NextUpload == UploadNote

SpecUpload == InitUpload /\ [][NextUpload]_vars

(***************************************************************************)
(* Properties of create_or_update_page (SpecUpload).                       *)
(***************************************************************************)
\* C22: when the page write succeeds and the page is verified to exist,
\* create_or_update_page reports success even if attachment uploads failed,
\* the two attachment counts add up to the number of attachments of the
\* page, every attachment was attempted exactly once, the note is recorded
\* as uploaded, and no page that was created is ever deleted.
C22_PartialSuccessIsRecorded ==
  /\ []((conv_last.op = "create_or_update_page"
           /\ conv_last.arg.put_ok /\ conv_last.arg.answered) =>
          LET call == conv_last.arg
              res == conv_last.value
          IN /\ res.success
             /\ res.attachments_uploaded + res.attachments_failed = Len(call.attachments)
             /\ res.attachments_failed
                  = Cardinality({k \in 1..Len(call.attachments) : ~call.ok[k]})
             /\ res.attempts = [k \in 1..Len(call.attachments) |->
                                  call.attachments[k].filename]
             /\ progress.notes[call.id].status = UPLOADED
             /\ progress.notes[call.id].page_url = res.page_url
             /\ call.name \in wiki)
  /\ [][wiki \subseteq wiki']_vars

\* C22 witness: a page of two attachments was written and verified, one of
\* the two uploads failed, and the note is recorded as uploaded
C22_Witness ==
  /\ conv_last.op = "create_or_update_page"
  /\ conv_last.value.success
  /\ conv_last.value.attachments_uploaded = 1
  /\ conv_last.value.attachments_failed = 1
  /\ progress.notes[conv_last.arg.id].status = UPLOADED
  /\ conv_last.arg.name \in wiki


(***************************************************************************)
(* A client of the converter for the walk of encrypted elements, of table  *)
(* elements outside a table, of nested tables and of code elements.        *)
(***************************************************************************)
\* en-crypt elements: with two texts, with and without an attribute, with
\* and without an image inside
Crypts ==
  {Elem("en-crypt", attrs, text, children, <<"t">>) :
     attrs \in {NoAttrs, [NoAttrs EXCEPT !.alt = <<"h">>]},
     text \in {<<"x">>, <<"y">>},
     children \in {<<>>, <<Img(Url1, <<>>)>>}}

\* the places of an element e in a document: in the note, in a paragraph,
\* a heading, a quotation, a code element, a link, a list item, a table cell
Places(e) ==
  {<<e>>,
   <<Elem("p", NoAttrs, <<"a">>, <<e>>, <<>>)>>,
   <<Elem("h1", NoAttrs, <<"a">>, <<e>>, <<>>)>>,
   <<Elem("blockquote", NoAttrs, <<"a">>, <<e>>, <<>>)>>,
   <<Elem("code", NoAttrs, <<"a">>, <<e>>, <<>>)>>,
   <<Elem("a", [NoAttrs EXCEPT !.href = <<"u">>], <<"a">>, <<e>>, <<>>)>>,
   <<Node("ul", <<Elem("li", NoAttrs, <<"a">>, <<e>>, <<>>)>>)>>,
   <<Node("table", <<Node("tr", <<Elem("td", NoAttrs, <<"a">>, <<e>>, <<>>)>>)>>)>>}

CryptDocs == {Node("en-note", place) : place \in UNION {Places(e) : e \in Crypts}}

\* rows and cells outside a table, a table inside a row of a table, and
\* elements inside code and pre elements
StrayDocs ==
  {Node("en-note", <<Leaf(tag, <<"b">>, <<"t">>)>>) : tag \in {"td", "th"}}
    \cup {Node("en-note", <<Node("tr", <<Leaf("td", <<"b">>, <<>>)>>)>>)}
    \cup {Node("en-note",
               <<Node("table",
                      <<Node("tr", <<Leaf("td", <<"a">>, <<>>)>>),
                        Node("tr", <<inner>>)>>)>>) :
            inner \in {Leaf("td", <<"b">>, <<>>),
                       Node("table", <<Node("tr", <<Leaf("td", <<"b">>, <<>>)>>)>>)}}
    \cup {Node("en-note", place) :
            place \in UNION {Places(e) : e \in {Leaf("b", <<"b">>, <<"t">>),
                                                 Leaf("span", <<"b">>, <<"t">>)}}}
    \cup {Node("en-note", <<Elem("pre", NoAttrs, <<"a">>, <<Leaf("span", <<"b">>, <<"t">>)>>,
                                 <<>>)>>)}

WalkNotes == {NoteOf(root, <<>>) : root \in CryptDocs \cup StrayDocs}

InitWalk ==
  /\ IdleTracker
  /\ frontend = "walk"
  /\ conv_note \in WalkNotes
  /\ converter = ENMLToXWikiConverter(conv_note, TRUE)
  /\ conv_last = NoCall
  /\ ncalls = 0
  /\ id_calls = <<>>

NextWalk == CallConvert

SpecWalk == InitWalk /\ [][NextWalk]_vars

(***************************************************************************)
(* Properties of the walk (SpecWalk).                                      *)
(***************************************************************************)
RECURSIVE Redacted(_)
\* the tree with the text, the attributes and the children of every
\* en-crypt element taken out
Redacted(element) ==
  IF element.tag = "en-crypt"
    THEN [element EXCEPT !.text = <<>>, !.attrs = NoAttrs, !.children = <<>>]
    ELSE [element EXCEPT !.children =
            [k \in 1..Len(element.children) |-> Redacted(element.children[k])]]

\* C23: what is inside an en-crypt element never reaches the output: the
\* conversion of a note gives the output and the downloaded images of the
\* conversion of the note with the text, attributes and children of its
\* en-crypt elements taken out, so two notes that differ only there give
\* the same output and the same downloaded images.
C23_EncryptedContentStaysOut ==
  (conv_last.op = "convert" /\ conv_note.xml = "root") =>
    LET plain == NoteOf(Redacted(conv_note.root), conv_note.attachments)
    IN \E r \in {convert(ENMLToXWikiConverter(plain, TRUE), plain, conv_last.arg)} :
         /\ conv_last.raised = r.raised
         /\ conv_last.value = r.value
         /\ converter.downloaded_images = r.converter.downloaded_images

\* the document has an en-crypt element below an element whose text is
\* collected by _get_element_text
RECURSIVE CryptBelow(_, _)
CryptBelow(element, collected) ==
  \/ element.tag = "en-crypt" /\ collected
  \/ \E k \in 1..Len(element.children) :
       CryptBelow(element.children[k],
                  collected \/ element.tag \in {"h1", "blockquote", "a", "td", "th"})

\* en-crypt elements elsewhere are replaced by the warning
EncryptedContentOfTheWalkStaysOut ==
  ~CryptBelow(conv_note.root, FALSE) => C23_EncryptedContentStaysOut

\* the characters of s that are no whitespace
Visible(s) == {unescape(s)[k] : k \in 1..Len(s)} \ Whitespace

RECURSIVE TextsOutside(_)
\* the visible characters of the text of element and of the text and tail
\* of the elements below it, en-crypt elements left out
TextsOutside(element) ==
  IF element.tag = "en-crypt" THEN {}
  ELSE Visible(element.text)
         \cup UNION {TextsOutside(element.children[k]) \cup Visible(element.children[k].tail) :
                       k \in 1..Len(element.children)}

\* the document has a row or a cell outside a table, a table inside a
\* table, or an element inside a code or pre element
RECURSIVE DropsContent(_, _)
DropsContent(element, parent) ==
  \/ element.tag \in {"td", "th"} /\ parent # "tr"
  \/ element.tag = "tr" /\ parent \notin {"table", "thead", "tbody", "tfoot"}
  \/ element.tag = "table" /\ parent \in {"table", "thead", "tbody", "tfoot", "tr"}
  \/ element.tag \in {"code", "pre"} /\ element.children # <<>>
  \/ \E k \in 1..Len(element.children) : DropsContent(element.children[k], element.tag)

\* C29: the text and the tail of every element outside en-crypt elements
\* appear in the output of the walk, also for tr, td and th outside a
\* table, for the rows of a table inside a table, and for the elements
\* inside code and pre elements.
C29_WalkPreservesContent ==
  (conv_last.op = "convert" /\ conv_note.xml = "root" /\ ~conv_last.raised) =>
    TextsOutside(conv_note.root) \subseteq {converter.output[k] : k \in 1..Len(converter.output)}

\* documents without those elements keep their content
OtherDocumentsKeepContent ==
  ~DropsContent(conv_note.root, "") => C29_WalkPreservesContent


(***************************************************************************)
(* Properties of save and load together (SpecTracker).                     *)
(***************************************************************************)
\* C24: in every state of the tracker, save() followed by load() on a fresh
\* tracker with the same state file returns True and gives the same
\* identifiers, with the same title, status, error, page_url, uploaded_at
\* and source_file each, and the same wiki_url, space and total_notes.
C24_SaveLoadRoundTrip ==
  \A o \in load(ImportProgress, save(progress)) :
    /\ ~o.raised
    /\ o.ret = TRUE
    /\ DOMAIN o.progress.notes = DOMAIN progress.notes
    /\ \A i \in DOMAIN progress.notes :
         /\ o.progress.notes[i].title = progress.notes[i].title
         /\ o.progress.notes[i].status = progress.notes[i].status
         /\ o.progress.notes[i].error = progress.notes[i].error
         /\ o.progress.notes[i].page_url = progress.notes[i].page_url
         /\ o.progress.notes[i].uploaded_at = progress.notes[i].uploaded_at
         /\ o.progress.notes[i].source_file = progress.notes[i].source_file
    /\ o.progress.wiki_url = progress.wiki_url
    /\ o.progress.space = progress.space
    /\ o.progress.total_notes = progress.total_notes

\* C24 witness: a tracker with a failed note and its error was loaded from
\* the file that save() wrote for it
C24_Witness ==
  /\ lastOp.op = "load"
  /\ lastRet.ret = TRUE
  /\ state_file = save(progress)
  /\ progress.total_notes > 0
  /\ \E i \in DOMAIN progress.notes :
       progress.notes[i].status = FAILED /\ progress.notes[i].error \in Errors


(***************************************************************************)
(* Properties of dry runs and of the session counts (Spec).                *)
(***************************************************************************)
\* the title of the note of the pool with an identifier
TitleOf(id) ==
  (CHOOSE n \in NotePool : generate_note_identifier(n.title, n.created) = id).title

\* C25: a dry run leaves nothing behind that a real run depends on: a real
\* run (the CLI with --resume, the GUI with the database check) passes a
\* note over as already processed or already imported only if the page of
\* the note was uploaded to the destination.
C25_DryRunLeavesNothingBehind ==
  /\ (frontend = "cli" /\ runs > 0 /\ ~opts.dry_run /\ opts.resume
        /\ last.outcome = "already_processed")
       => page_name(TitleOf(last.id)) \in wiki
  /\ (frontend = "gui" /\ runs > 0 /\ ~opts.dry_run /\ opts.skip_existing_db)
       => \A k \in 1..Len(records) :
            (/\ records[k].status = ST_SKIPPED
             /\ records[k].error_message = "Already imported (database)")
              => page_name(TitleOf(records[k].note_identifier)) \in wiki

\* C26: when a GUI session is finished, its stored completed_notes,
\* failed_notes and skipped_notes are the numbers of its records that are
\* completed, failed and skipped, and their sum is the number of its
\* records.
C26_SessionCountsMatchRecords ==
  (frontend = "gui" /\ pc = "done" /\ session_id > 0) =>
    LET session == sessions[session_id]
    IN /\ session.completed_notes = Cardinality(RowsWith(ST_COMPLETED))
       /\ session.failed_notes = Cardinality(RowsWith(ST_FAILED))
       /\ session.skipped_notes = Cardinality(RowsWith(ST_SKIPPED))
       /\ session.completed_notes + session.failed_notes + session.skipped_notes
            = Len(records)

\* the counters of the loop match the records of the session
LoopCountersMatchRecords ==
  (frontend = "gui" /\ pc \in {"loop", "done"} /\ session_id > 0) =>
    /\ completed = Cardinality(RowsWith(ST_COMPLETED))
    /\ failed = Cardinality(RowsWith(ST_FAILED))
    /\ skipped = Cardinality(RowsWith(ST_SKIPPED))


(***************************************************************************)
(* Filenames of the images a conversion materialises (SpecConverter).      *)
(***************************************************************************)
\* C27: after the conversion of a note the filenames of the newly
\* downloaded images, from data URIs and from external downloads alike, are
\* pairwise distinct without regard to case, and none is the filename of an
\* attachment bundled with the note.
C27_NewImagesHaveDistinctFilenames ==
  (conv_last.op = "convert" /\ ~conv_last.raised) =>
    LET images == converter.downloaded_images
    IN /\ \A i, j \in 1..Len(images) :
            i # j => lower(images[i].filename) # lower(images[j].filename)
       /\ \A i \in 1..Len(images), k \in 1..Len(conv_note.attachments) :
            lower(images[i].filename) # lower(conv_note.attachments[k].filename)


(***************************************************************************)
(* Targets of the pages of a batch (SpecUpload).                           *)
(***************************************************************************)
\* the identifiers of the notes recorded with a status
NotesWith(status) == {id \in DOMAIN progress.notes : progress.notes[id].status = status}

\* C28: in a batch in which every upload succeeds, two notes of different
\* titles are written to different pages, so the destination holds one
\* page for every note recorded as uploaded.
C28_OnePagePerUploadedNote ==
  (frontend = "upload" /\ NotesWith(UPLOADED) = DOMAIN progress.notes) =>
    /\ \A i, j \in DOMAIN progress.notes :
         progress.notes[i].title # progress.notes[j].title
           => progress.notes[i].page_url # progress.notes[j].page_url
    /\ Cardinality(wiki) = Cardinality(NotesWith(UPLOADED))

\* every note recorded as uploaded has its page at the destination
UploadedNotesHaveTheirPage ==
  frontend = "upload" =>
    \A id \in NotesWith(UPLOADED) : page_name(progress.notes[id].title) \in wiki


(***************************************************************************)
(* Identifiers of different notes (SpecIdentifier).                        *)
(***************************************************************************)
\* C30: two notes that differ in title or in creation timestamp, one with
\* and one without a timestamp included, are given different identifiers,
\* so the record of a note is never the record of another note.
C30_IdentifierIsInjective ==
  /\ \A i, j \in 1..Len(id_calls) :
       (id_calls[i].title # id_calls[j].title \/ id_calls[i].created # id_calls[j].created)
         => id_calls[i].value # id_calls[j].value
  /\ \A i \in 1..Len(id_calls) :
       id_calls[i].value \in DOMAIN progress.notes
         => progress.notes[id_calls[i].value].title = id_calls[i].title

\* notes that both have a timestamp, or both have none, and differ are
\* given different identifiers
SameKindIdentifiersDiffer ==
  \A i, j \in 1..Len(id_calls) :
    (/\ (id_calls[i].created = NoDatetime) = (id_calls[j].created = NoDatetime)
     /\ (id_calls[i].title # id_calls[j].title \/ id_calls[i].created # id_calls[j].created))
      => id_calls[i].value # id_calls[j].value

=============================================================================
